---- MODULE Spec2Model ----
(***************************************************************************)
(* Model of the download/reassembly engine of tumlive_downloader:          *)
(*   backend/downloader.py  download_list_of_videos, download, download_ts, *)
(*                          update_progress, clear_progress_data            *)
(*   backend/server.py      start_download, download_thread,                *)
(*                          cancel_download and its helpers                 *)
(* Processes are interleaved at the granularity of their accesses to        *)
(* shared state (files, the semaphore, the cancellation flag, the server's  *)
(* globals).                                                                *)
(***************************************************************************)
EXTENDS Integers, Sequences, FiniteSets, TLC

\* ------------------------------------------------------------------ bounds
NumJobs == 2          \* lectures in the jobs list of a batch of the server
LockJobs == 1         \* lectures in the jobs lists of the two independent instances
NumSegs == 2          \* largest number of segments in a manifest

\* ------------------------------------------------------- program constants
max_retries == 5      \* downloader.py:243
PadWidth == 5         \* downloader.py:221  f"{index:05d}.ts"
MinParallel == 1      \* server.py:356
MaxParallel == 16     \* server.py:356
ReleaseTries == 20    \* server.py:862

\* The callers of download_list_of_videos: two orchestrator instances, or the
\* download threads of two successive batches of one server.
Callers == {1, 2}
JobIdx == 1..NumJobs
SegIdx == 0..(NumSegs - 1)
Workers == Callers \X JobIdx
\* A file (or an entry of a JSON object) is absent, or holds one content.
NoFile == <<>>
File(content) == <<content>>
Content(f) == f[1]
NoRec == <<>>

\* ------------------------------------------------------------------ names
Digits == <<"0", "1", "2", "3", "4", "5", "6", "7", "8", "9">>
Digit(d) == Digits[d + 1]

\* The characters the regular expression of downloader.py:103 replaces:
\* [\\/:*?"<>|] and the range \x00-\x20.
\* The characters display names are made of here, with their code points
\* ("NUL", "US" and "DEL" stand for the characters 0x00, 0x1F and 0x7F).
CodePoint ==
    [ch \in {"NUL", "\t", "\n", "US", " ", "\"", "*", ".", "/", ":", "<", ">", "?",
             "L", "\\", "_", "a", "|", "DEL"} |->
        CASE ch = "NUL" -> 0    [] ch = "\t" -> 9   [] ch = "\n" -> 10  [] ch = "US" -> 31
          [] ch = " " -> 32     [] ch = "\"" -> 34  [] ch = "*" -> 42   [] ch = "." -> 46
          [] ch = "/" -> 47     [] ch = ":" -> 58   [] ch = "<" -> 60   [] ch = ">" -> 62
          [] ch = "?" -> 63     [] ch = "L" -> 76   [] ch = "\\" -> 92  [] ch = "_" -> 95
          [] ch = "a" -> 97     [] ch = "|" -> 124  [] ch = "DEL" -> 127]
NameChars == DOMAIN CodePoint

\* The first character class without the backslash.
IllegalCharsNoBackslash == {"/", ":", "*", "?", "\"", "<", ">", "|"}
IllegalChars == {"\\", "/", ":", "*", "?", "\"", "<", ">", "|"}
ControlChars == {ch \in NameChars : CodePoint[ch] \in 0..32}

Sanitize(name) ==
    [i \in DOMAIN name |->
        IF name[i] \in IllegalChars \cup ControlChars THEN "_" ELSE name[i]]
    \o <<".", "m", "p", "4">>

\* The display name of lecture i as the scraper of caller-side stream `sep` gives it.
DisplayName(sep, i) == <<"L", sep, Digit(i)>>
JobList(sep, len) == [i \in 1..len |-> <<DisplayName(sep, i), i>>]
Separators == {"/", ":"}
SanNames == {Sanitize(DisplayName(s, i)) : s \in Separators, i \in JobIdx}

VARIABLES
    \* ---- the file system
    lockFile,        \* names n for which <output>/n.lock exists
    outFile,         \* names n for which <output>/n exists
    tsDir,           \* names n whose working directory <tmp>/n_ts exists
    tsSegs,          \* n -> indices k for which <tmp>/n_ts/kkkkk.ts exists
    listFile,        \* n -> the lines of segments.txt, or NoFile
    muxedFile,       \* names n for which <tmp>/n_ts/n (ffmpeg's output) exists
    progressFile,    \* NoFile, or the JSON object: name -> record or NoRec
    error_log,       \* the entries of <output>/download_errors.log, oldest first
    \* ---- update_progress, statement by statement (per process)
    ucalls,          \* the calls <<current, total>> the process has still to make
    upc,             \* where the process is in update_progress
    progress_data,   \* the object the call read
    fdAt,            \* where the file the call opened is now: a name, or "gone"
    tmpFile,         \* NoFile, or the object last written to the temporary file
    tmpBytes,        \* what the temporary file holds: "empty", "whole", "mixed"
    progressBytes,   \* what the ProgressStore file holds, likewise
    \* ---- inputs
    videos,          \* caller -> its jobs list (display name, playlist)
    manifestLen,     \* number of segments of the playlists
    maxParallel,     \* the semaphore's initial value (after clamping)
    \* ---- shared between processes
    cancellation_flag,
    sem,             \* caller -> value of the semaphore it created
    \* ---- download_list_of_videos, per caller
    dpc, didx, child_process_list,
    \* ---- download (the worker process), per worker
    wpc,             \* position in download()
    holds,           \* workers that acquired the semaphore and did not release it
    seg,             \* worker -> index -> state of download_ts for that index
    attempt,         \* worker -> index -> loop variable of the retry loop
    requested,       \* worker -> indices for which a network request was made
    completed_segments,
    segment_paths,   \* worker -> indices returned by the pool, None filtered out
    present0,        \* worker -> segment files found when the pool started
    slept,           \* worker -> index -> the seconds download_ts slept, in order
    tmpSegs,         \* file name -> indices whose .tmp file is in the directory
    active_downloads,  \* batch -> the count of the monitoring loop's last pass
    \* ---- the server's progress counters (server.py:182-184) and the
    \* "progress" field of download_status
    total_lectures_to_download,
    completed_lectures_count,
    lecture_completion_status,   \* the file names marked True
    download_progress,
    \* ---- history of download_list_of_videos
    sawExisting,     \* caller -> jobs it examined and found locked or downloaded
    lockedBy,        \* caller -> jobs for which it created the lock
    \* ---- the server's globals (server.py:173-179)
    download_status,             \* its "status" field
    download_cancelled,
    active_download_processes,
    current_download_semaphore,  \* 0 for None, or the batch whose semaphore it is
    \* ---- the server's threads
    tpc,             \* batch -> position of its download_thread
    all_processes,   \* batch -> the local list of download_thread
    kpc,             \* position of the cancel_download handler
    flagSetInPool,   \* history: the workers that were in their segment pool when
                     \* cancel_download set the flag
    \* ---- a caller of get_progress_data
    gpc,             \* where the call is: "idle", "open", "returned"
    got,             \* what the last call returned
    caught           \* the exception its except clause caught, or "none"

logVars == <<error_log>>
upVars == <<ucalls, upc, progress_data, fdAt, tmpFile, tmpBytes, progressBytes>>
fsVars == <<lockFile, outFile, tsDir, tsSegs, listFile, muxedFile, progressFile>>
inVars == <<videos, manifestLen, maxParallel>>
readVars == <<gpc, got, caught>>
dlvVars == <<dpc, didx, child_process_list, sawExisting, lockedBy>>
retryVars == <<slept, tmpSegs>>
countVars == <<total_lectures_to_download, completed_lectures_count,
               lecture_completion_status, download_progress>>
monVars == <<active_downloads, countVars>>
wVars == <<wpc, holds, seg, attempt, requested, completed_segments, segment_paths, present0>>
srvVars == <<download_status, download_cancelled, active_download_processes,
             current_download_semaphore, tpc, all_processes, kpc, flagSetInPool>>
vars == <<fsVars, inVars, readVars, retryVars, monVars, logVars, upVars, srvVars, cancellation_flag, sem, dlvVars, wVars>>

Name(w) == Sanitize(videos[w[1]][w[2]][1])

\* ------------------------------------------------------------ ProgressStore
\* update_progress: status and percentage of the record written.
\* The status with the test total > 0 of line 39 left out.
ProgressStatusAnyTotal(current, total) ==
    IF current >= total THEN "completed"
    ELSE IF current > 0 THEN "downloading"
    ELSE "starting"

ProgressStatus(current, total) ==
    IF current >= total /\ total > 0 THEN "completed"
    ELSE IF current > 0 THEN "downloading"
    ELSE "starting"

Min(a, b) == IF a < b THEN a ELSE b
Max(a, b) == IF a > b THEN a ELSE b

\* int((c / t) * 100) in double arithmetic, for 0 <= c < t <= 100: the exact
\* quotient truncated, except for the pairs whose double product falls just
\* below the integer 100c/t.
FloatShort == {<<29, 50>>, <<29, 100>>, <<57, 100>>, <<58, 100>>}
IntOfRatio(c, t) == (c * 100) \div t - (IF <<c, t>> \in FloatShort THEN 1 ELSE 0)

ProgressPercentage(current, total) ==
    IF current >= total /\ total > 0 THEN 100
    ELSE IF current > 0
         THEN (IF total > 0 THEN Min(100, IntOfRatio(current, total)) ELSE 0)
         ELSE 0

ProgressRecord(current, total) ==
    [current |-> current, total |-> total,
     percentage |-> ProgressPercentage(current, total),
     status |-> ProgressStatus(current, total)]

\* The store after update_progress(filename, current, total): the existing
\* object (empty when the file is absent) with filename's entry replaced.
update_progress(store, filename, current, total) ==
    LET old == IF store = NoFile THEN [n \in SanNames |-> NoRec] ELSE Content(store)
    IN File([old EXCEPT ![filename] = File(ProgressRecord(current, total))])

\* completed_segments as the percentage download_ts passes to update_progress.
SegPercent(done, total) == IF total > 0 THEN IntOfRatio(done, total) ELSE 0


\* ------------------------------------------------------------- processes
DeadPcs == {"none", "cancelled", "failed", "mux_failed", "crashed", "done", "killed"}
Alive(w) == wpc[w] \notin DeadPcs
Spawned(w) == wpc[w] # "none"

\* ------------------------------------------ download_list_of_videos (caller c)
curJob(c) == Sanitize(videos[c][didx[c]][1])

LockExists(n) == n \in lockFile
\* The check of the output file left out of the condition of line 110-111.
OutputExistsIgnored(n) == FALSE
OutputExists(n) == n \in outFile

\* clear_progress_data(): the ProgressStore file is unlinked.
clear_progress_data == progressFile' = NoFile

\* downloader.py:93 on entry.
DlvEnter(c) ==
    /\ dpc[c] = "enter"
    /\ clear_progress_data
    /\ dpc' = [dpc EXCEPT ![c] = "loop"]
    /\ didx' = [didx EXCEPT ![c] = 1]
    /\ child_process_list' = [child_process_list EXCEPT ![c] = {}]
    /\ UNCHANGED <<lockFile, outFile, tsDir, tsSegs, listFile, muxedFile, inVars, readVars, retryVars, monVars, logVars, upVars, srvVars,
                   cancellation_flag, sem, sawExisting, lockedBy, wVars>>

\* The loop head and the first check of the flag (96-100).
DlvLoop(c) ==
    /\ dpc[c] = "loop"
    /\ dpc' = [dpc EXCEPT ![c] =
                 IF didx[c] > Len(videos[c]) \/ cancellation_flag = 1
                 THEN "return" ELSE "chk_lock"]
    /\ UNCHANGED <<fsVars, inVars, readVars, retryVars, monVars, logVars, upVars, srvVars, cancellation_flag, sem, didx, child_process_list,
                   sawExisting, lockedBy, wVars>>

\* Path(output + ".lock").exists()  (110): an existing lock skips the job.
DlvCheckLock(c) ==
    /\ dpc[c] = "chk_lock"
    /\ IF LockExists(curJob(c))
       THEN /\ dpc' = [dpc EXCEPT ![c] = "loop"]
            /\ didx' = [didx EXCEPT ![c] = @ + 1]
       ELSE /\ dpc' = [dpc EXCEPT ![c] = "chk_out"]
            /\ didx' = didx
    /\ sawExisting' = IF curJob(c) \in lockFile
                      THEN [sawExisting EXCEPT ![c] = @ \cup {didx[c]}]
                      ELSE sawExisting
    /\ UNCHANGED <<fsVars, inVars, readVars, retryVars, monVars, logVars, upVars, srvVars, cancellation_flag, sem, child_process_list,
                   lockedBy, wVars>>

\* output_file_path.exists()  (111): an existing output skips the job.
DlvCheckOutput(c) ==
    /\ dpc[c] = "chk_out"
    /\ IF OutputExists(curJob(c))
       THEN /\ dpc' = [dpc EXCEPT ![c] = "loop"]
            /\ didx' = [didx EXCEPT ![c] = @ + 1]
       ELSE /\ dpc' = [dpc EXCEPT ![c] = "chk_cancel"]
            /\ didx' = didx
    /\ sawExisting' = IF curJob(c) \in outFile
                      THEN [sawExisting EXCEPT ![c] = @ \cup {didx[c]}]
                      ELSE sawExisting
    /\ UNCHANGED <<fsVars, inVars, readVars, retryVars, monVars, logVars, upVars, srvVars, cancellation_flag, sem, child_process_list,
                   lockedBy, wVars>>

\* The second check of the flag (114-116).
DlvCheckCancel(c) ==
    /\ dpc[c] = "chk_cancel"
    /\ dpc' = [dpc EXCEPT ![c] = IF cancellation_flag = 1 THEN "return" ELSE "touch"]
    /\ UNCHANGED <<fsVars, inVars, readVars, retryVars, monVars, logVars, upVars, srvVars, cancellation_flag, sem, didx, child_process_list,
                   sawExisting, lockedBy, wVars>>

\* Path(...).touch()  (118): creates the lock, or succeeds on an existing one.
DlvTouch(c) ==
    /\ dpc[c] = "touch"
    /\ lockFile' = lockFile \cup {curJob(c)}
    /\ lockedBy' = [lockedBy EXCEPT ![c] = @ \cup {didx[c]}]
    /\ dpc' = [dpc EXCEPT ![c] = "init_progress"]
    /\ UNCHANGED <<outFile, tsDir, tsSegs, listFile, muxedFile, progressFile, inVars, readVars, retryVars, monVars, logVars, upVars, srvVars,
                   cancellation_flag, sem, didx, child_process_list, sawExisting, wVars>>

\* update_progress(filename, 0, 100, 0)  (121).
DlvInitProgress(c) ==
    /\ dpc[c] = "init_progress"
    /\ progressFile' = update_progress(progressFile, curJob(c), 0, 100)
    /\ dpc' = [dpc EXCEPT ![c] = "spawn"]
    /\ UNCHANGED <<lockFile, outFile, tsDir, tsSegs, listFile, muxedFile, inVars, readVars, retryVars, monVars, logVars, upVars, srvVars,
                   cancellation_flag, sem, didx, child_process_list, sawExisting,
                   lockedBy, wVars>>

\* Process(target=download, ...).start() and the append (125-130).
DlvSpawn(c) ==
    /\ dpc[c] = "spawn"
    /\ wpc' = [wpc EXCEPT ![<<c, didx[c]>>] = "start"]
    /\ child_process_list' = [child_process_list EXCEPT ![c] = @ \cup {<<c, didx[c]>>}]
    /\ didx' = [didx EXCEPT ![c] = @ + 1]
    /\ dpc' = [dpc EXCEPT ![c] = "loop"]
    /\ UNCHANGED <<fsVars, inVars, readVars, retryVars, monVars, logVars, upVars, srvVars, cancellation_flag, sem, sawExisting, lockedBy,
                   holds, seg, attempt, requested, completed_segments, segment_paths,
                   present0>>

download_list_of_videos(c) ==
    \/ DlvEnter(c) \/ DlvLoop(c) \/ DlvCheckLock(c) \/ DlvCheckOutput(c)
    \/ DlvCheckCancel(c) \/ DlvTouch(c) \/ DlvInitProgress(c) \/ DlvSpawn(c)


\* ------------------------------------------------- download (worker process w)
wsem(w) == sem[w[1]]

Exit(w, how) == wpc' = [wpc EXCEPT ![w] = how]

\* semaphore.release() by worker w.
Release(w) ==
    /\ sem' = [sem EXCEPT ![w[1]] = @ + 1]
    /\ holds' = holds \ {w}

\* 173-179 log_error: one entry is appended to download_errors.log.
log_error(log, n, entry) == Append(log, <<n>> \o entry)

\* 143-145: the first check of the flag.
WStart(w) ==
    /\ wpc[w] = "start"
    /\ Exit(w, IF cancellation_flag = 1 THEN "cancelled" ELSE "prog0")
    /\ UNCHANGED <<fsVars, inVars, readVars, retryVars, monVars, logVars, upVars, srvVars, cancellation_flag, sem, dlvVars, holds, seg, attempt,
                   requested, completed_segments, segment_paths, present0>>

\* 148: update_progress(filename, 0, 100, 0).
WProg0(w) ==
    /\ wpc[w] = "prog0"
    /\ progressFile' = update_progress(progressFile, Name(w), 0, 100)
    /\ Exit(w, "chk2")
    /\ UNCHANGED <<lockFile, outFile, tsDir, tsSegs, listFile, muxedFile, inVars, readVars, retryVars, monVars, logVars, upVars, srvVars,
                   cancellation_flag, sem, dlvVars, holds, seg, attempt, requested,
                   completed_segments, segment_paths, present0>>

\* 151-153: the check before acquiring.
WCheck2(w) ==
    /\ wpc[w] = "chk2"
    /\ Exit(w, IF cancellation_flag = 1 THEN "cancelled" ELSE "acquire")
    /\ UNCHANGED <<fsVars, inVars, readVars, retryVars, monVars, logVars, upVars, srvVars, cancellation_flag, sem, dlvVars, holds, seg, attempt,
                   requested, completed_segments, segment_paths, present0>>

\* 156: semaphore.acquire() blocks while the value is 0.
WAcquire(w) ==
    /\ wpc[w] = "acquire"
    /\ wsem(w) > 0
    /\ sem' = [sem EXCEPT ![w[1]] = @ - 1]
    /\ holds' = holds \cup {w}
    /\ Exit(w, "chk3")
    /\ UNCHANGED <<fsVars, inVars, readVars, retryVars, monVars, logVars, upVars, srvVars, cancellation_flag, dlvVars, seg, attempt, requested,
                   completed_segments, segment_paths, present0>>

\* The check after acquiring with semaphore.release() left out.
WCheck3KeepsSlot(w) ==
    /\ wpc[w] = "chk3"
    /\ IF cancellation_flag = 1
       THEN UNCHANGED <<sem, holds>> /\ Exit(w, "cancelled")
       ELSE UNCHANGED <<sem, holds>> /\ Exit(w, "prog1")
    /\ UNCHANGED <<fsVars, inVars, readVars, retryVars, monVars, logVars, upVars, srvVars, cancellation_flag, dlvVars, seg, attempt, requested,
                   completed_segments, segment_paths, present0>>

\* 160-163: the check after acquiring; release and return when cancelled.
WCheck3(w) ==
    /\ wpc[w] = "chk3"
    /\ IF cancellation_flag = 1
       THEN Release(w) /\ Exit(w, "cancelled")
       ELSE UNCHANGED <<sem, holds>> /\ Exit(w, "prog1")
    /\ UNCHANGED <<fsVars, inVars, readVars, retryVars, monVars, logVars, upVars, srvVars, cancellation_flag, dlvVars, seg, attempt, requested,
                   completed_segments, segment_paths, present0>>

\* 168: update_progress(filename, 1, 100, 0).
WProg1(w) ==
    /\ wpc[w] = "prog1"
    /\ progressFile' = update_progress(progressFile, Name(w), 1, 100)
    /\ Exit(w, "load")
    /\ UNCHANGED <<lockFile, outFile, tsDir, tsSegs, listFile, muxedFile, inVars, readVars, retryVars, monVars, logVars, upVars, srvVars,
                   cancellation_flag, sem, dlvVars, holds, seg, attempt, requested,
                   completed_segments, segment_paths, present0>>

\* 183-206: the manifest loads, the working directory is created and is
\* writable; the pool starts with every index pending.
WLoad(w) ==
    /\ wpc[w] = "load"
    /\ tsDir' = tsDir \cup {Name(w)}
    /\ seg' = [seg EXCEPT ![w] = [k \in SegIdx |-> IF k < manifestLen THEN "pending" ELSE "absent"]]
    /\ attempt' = [attempt EXCEPT ![w] = [k \in SegIdx |-> 0]]
    /\ completed_segments' = [completed_segments EXCEPT ![w] = 0]
    /\ present0' = [present0 EXCEPT ![w] = tsSegs[Name(w)]]
    /\ Exit(w, "pool")
    /\ UNCHANGED <<lockFile, outFile, tsSegs, listFile, muxedFile, progressFile, inVars, readVars, retryVars, monVars, logVars, upVars, srvVars,
                   cancellation_flag, sem, dlvVars, holds, requested, segment_paths>>

\* 183/329-333: m3u8.load (or anything else of phase 1) raises; the handler
\* logs, resets the progress record and goes on to release the slot.
WLoadFail(w) ==
    /\ wpc[w] = "load"
    /\ progressFile' = update_progress(progressFile, Name(w), 0, 100)
    /\ Exit(w, "fail_release")
    /\ error_log' = log_error(error_log, Name(w), <<"phase1">>)
    /\ UNCHANGED <<lockFile, outFile, tsDir, tsSegs, listFile, muxedFile, inVars, readVars, retryVars, monVars, upVars, srvVars,
                   cancellation_flag, sem, dlvVars, holds, seg, attempt, requested,
                   completed_segments, segment_paths, present0>>

\* 193-200: the manifest loaded and the directory exists, but the write test
\* fails; the progress record is reset and the slot released next.
WTmpFail(w) ==
    /\ wpc[w] = "load"
    /\ tsDir' = tsDir \cup {Name(w)}
    /\ progressFile' = update_progress(progressFile, Name(w), 0, 100)
    /\ Exit(w, "fail_release")
    /\ error_log' = log_error(error_log, Name(w), <<"tmp">>)
    /\ UNCHANGED <<lockFile, outFile, tsSegs, listFile, muxedFile, inVars, readVars, retryVars, monVars, upVars, srvVars,
                   cancellation_flag, sem, dlvVars, holds, seg, attempt, requested,
                   completed_segments, segment_paths, present0>>

\* The failure path with semaphore.release() left out.
WFailReleaseKeepsSlot(w) ==
    /\ wpc[w] = "fail_release"
    /\ UNCHANGED <<sem, holds>>
    /\ Exit(w, "failed")
    /\ UNCHANGED <<fsVars, inVars, readVars, retryVars, monVars, logVars, upVars, srvVars, cancellation_flag, dlvVars, seg, attempt, requested,
                   completed_segments, segment_paths, present0>>

\* 201-202 and 334-335: semaphore.release(); return.
WFailRelease(w) ==
    /\ wpc[w] = "fail_release"
    /\ Release(w)
    /\ Exit(w, "failed")
    /\ UNCHANGED <<fsVars, inVars, readVars, retryVars, monVars, logVars, upVars, srvVars, cancellation_flag, dlvVars, seg, attempt, requested,
                   completed_segments, segment_paths, present0>>


\* ------------------------------------------ download_ts (worker w, index k)
\* 233-240 and 292-299: under the worker's mutex, count the segment and
\* publish the percentage.
\* The increment of lines 292-294 without "with lock": an increment made
\* while another fetch of the pool was counting can be lost.
CountSegmentUnlocked(w) ==
    \E c \in {completed_segments[w] + 1} \cup
             (IF completed_segments[w] > 0 THEN {completed_segments[w]} ELSE {}) :
        /\ completed_segments' = [completed_segments EXCEPT ![w] = c]
        /\ progressFile' = update_progress(progressFile, Name(w),
                               SegPercent(c, manifestLen), 100)

CountSegment(w) ==
    /\ completed_segments' = [completed_segments EXCEPT ![w] = @ + 1]
    /\ progressFile' = update_progress(progressFile, Name(w),
                           SegPercent(completed_segments[w] + 1, manifestLen), 100)

SegResult(w, k, r) == seg' = [seg EXCEPT ![w][k] = r]

\* The test of line 232 left out: no segment file is taken to exist.
SegmentExistsIgnored(n, k) == FALSE
\* 232: ts_path.exists()
SegmentExists(n, k) == k \in tsSegs[n]

\* 216-241: the flag is checked first; a segment file that exists is returned
\* without a request; otherwise the retry loop is entered.
SegBegin(w, k) ==
    /\ wpc[w] = "pool"
    /\ seg[w][k] = "pending"
    /\ IF cancellation_flag = 1
       THEN /\ SegResult(w, k, "none")
            /\ UNCHANGED <<tsDir, completed_segments, progressFile>>
       ELSE /\ tsDir' = tsDir \cup {Name(w)}
            /\ IF SegmentExists(Name(w), k)
               THEN SegResult(w, k, "done") /\ CountSegment(w)
               ELSE SegResult(w, k, "try") /\ UNCHANGED <<completed_segments, progressFile>>
    /\ UNCHANGED <<lockFile, outFile, tsSegs, listFile, muxedFile, inVars, readVars, retryVars, monVars, logVars, upVars, srvVars,
                   cancellation_flag, sem, dlvVars, wpc, holds, attempt, requested,
                   segment_paths, present0>>

\* 244-265: the head of one iteration of the retry loop: the flag is checked,
\* the directory is ensured, the request is sent and the temporary file opened.
SegRequest(w, k) ==
    /\ wpc[w] = "pool"
    /\ seg[w][k] = "try"
    /\ IF cancellation_flag = 1
       THEN SegResult(w, k, "none") /\ UNCHANGED <<tsDir, requested, tmpSegs>>
       ELSE /\ SegResult(w, k, "inflight")
            /\ tsDir' = tsDir \cup {Name(w)}
            /\ requested' = [requested EXCEPT ![w] = @ \cup {k}]
            /\ tmpSegs' = [tmpSegs EXCEPT ![Name(w)] = @ \cup {k}]
    /\ UNCHANGED <<lockFile, outFile, tsSegs, listFile, muxedFile, progressFile, inVars, readVars, slept, monVars, logVars, upVars, srvVars,
                   cancellation_flag, sem, dlvVars, wpc, holds, attempt,
                   completed_segments, segment_paths, present0>>

\* 267-300: the body was streamed to the temporary file with the flag clear
\* at every chunk, the file is not empty and is renamed to its final path.
SegStored(w, k) ==
    /\ wpc[w] = "pool"
    /\ seg[w][k] = "inflight"
    /\ cancellation_flag = 0
    /\ tsDir' = tsDir \cup {Name(w)}
    /\ tsSegs' = [tsSegs EXCEPT ![Name(w)] = @ \cup {k}]
    /\ tmpSegs' = [tmpSegs EXCEPT ![Name(w)] = @ \ {k}]
    /\ SegResult(w, k, "done")
    /\ CountSegment(w)
    /\ UNCHANGED <<lockFile, outFile, listFile, muxedFile, inVars, readVars, slept, monVars, logVars, upVars, srvVars, cancellation_flag,
                   sem, dlvVars, wpc, holds, attempt, requested, segment_paths, present0>>

\* The return at a chunk with temp_path.unlink() left out.
SegChunkCancelledKeepsTmp(w, k) ==
    /\ wpc[w] = "pool"
    /\ seg[w][k] = "inflight"
    /\ cancellation_flag = 1
    /\ tmpSegs' = tmpSegs
    /\ SegResult(w, k, "none")
    /\ UNCHANGED <<fsVars, inVars, readVars, slept, monVars, logVars, upVars, srvVars, cancellation_flag, sem, dlvVars, wpc, holds, attempt,
                   requested, completed_segments, segment_paths, present0>>

\* 270-277: the flag is found set at a chunk: the temporary file is removed
\* and None returned.
SegChunkCancelled(w, k) ==
    /\ wpc[w] = "pool"
    /\ seg[w][k] = "inflight"
    /\ cancellation_flag = 1
    /\ tmpSegs' = [tmpSegs EXCEPT ![Name(w)] = @ \ {k}]
    /\ SegResult(w, k, "none")
    /\ UNCHANGED <<fsVars, inVars, readVars, slept, monVars, logVars, upVars, srvVars, cancellation_flag, sem, dlvVars, wpc, holds, attempt,
                   requested, completed_segments, segment_paths, present0>>

\* The retry loop with one iteration more than range(max_retries) gives.
\* The attempt with the body streamed straight to ts_path instead of the
\* temporary file: what was received before the failure stays there.
SegAttemptFailedAtFinalPath(w, k) ==
    /\ wpc[w] = "pool"
    /\ seg[w][k] = "inflight"
    /\ tmpSegs' = [tmpSegs EXCEPT ![Name(w)] = @ \ {k}]
    /\ tsSegs' = [tsSegs EXCEPT ![Name(w)] = @ \cup {k}]
    /\ slept' = [slept EXCEPT ![w][k] = Append(@, 2 ^ attempt[w][k])]
    /\ attempt' = [attempt EXCEPT ![w][k] = @ + 1]
    /\ SegResult(w, k, IF attempt[w][k] + 1 >= max_retries THEN "none" ELSE "try")
    /\ error_log' = IF attempt[w][k] + 1 >= max_retries
                    THEN log_error(error_log, Name(w), <<"segment", k>>)
                    ELSE error_log
    /\ UNCHANGED <<lockFile, outFile, tsDir, listFile, muxedFile, progressFile, inVars, readVars, monVars, upVars, srvVars,
                   cancellation_flag, sem, dlvVars, wpc, holds,
                   requested, completed_segments, segment_paths, present0>>

SegAttemptFailedOnceMore(w, k) ==
    /\ wpc[w] = "pool"
    /\ seg[w][k] = "inflight"
    /\ tmpSegs' = [tmpSegs EXCEPT ![Name(w)] = @ \ {k}]
    /\ slept' = [slept EXCEPT ![w][k] = Append(@, 2 ^ attempt[w][k])]
    /\ attempt' = [attempt EXCEPT ![w][k] = @ + 1]
    /\ SegResult(w, k, IF attempt[w][k] + 1 > max_retries THEN "none" ELSE "try")
    /\ error_log' = IF attempt[w][k] + 1 > max_retries
                    THEN log_error(error_log, Name(w), <<"segment", k>>)
                    ELSE error_log
    /\ UNCHANGED <<fsVars, inVars, readVars, monVars, upVars, srvVars, cancellation_flag, sem, dlvVars, wpc, holds,
                   requested, completed_segments, segment_paths, present0>>

\* 302-318: the attempt raised (network error, status, empty file): the
\* temporary file is removed, the last attempt is logged, and time.sleep(2 **
\* attempt) follows every failed attempt; then the loop goes on, and returns
\* None once max_retries attempts failed.
SegAttemptFailed(w, k) ==
    /\ wpc[w] = "pool"
    /\ seg[w][k] = "inflight"
    /\ tmpSegs' = [tmpSegs EXCEPT ![Name(w)] = @ \ {k}]
    /\ slept' = [slept EXCEPT ![w][k] = Append(@, 2 ^ attempt[w][k])]
    /\ attempt' = [attempt EXCEPT ![w][k] = @ + 1]
    /\ SegResult(w, k, IF attempt[w][k] + 1 >= max_retries THEN "none" ELSE "try")
    /\ error_log' = IF attempt[w][k] + 1 >= max_retries
                    THEN log_error(error_log, Name(w), <<"segment", k>>)
                    ELSE error_log
    /\ UNCHANGED <<fsVars, inVars, readVars, monVars, upVars, srvVars, cancellation_flag, sem, dlvVars, wpc, holds,
                   requested, completed_segments, segment_paths, present0>>

\* ------------------------------------------------------------ segment names
RECURSIVE DigitsOf(_)
DigitsOf(n) == IF n < 10 THEN <<Digit(n)>> ELSE DigitsOf(n \div 10) \o <<Digit(n % 10)>>

RECURSIVE ZeroPad(_, _)
ZeroPad(s, width) == IF Len(s) >= width THEN s ELSE ZeroPad(<<"0">> \o s, width)

\* f"{index:05d}.ts"
SegName(index) == ZeroPad(DigitsOf(index), PadWidth) \o <<".", "t", "s">>

\* Code points of the characters of a segment name.
CharCode(ch) ==
    IF ch = "." THEN 46
    ELSE IF ch = "s" THEN 115
    ELSE IF ch = "t" THEN 116
    ELSE 47 + (CHOOSE d \in 1..10 : Digits[d] = ch)

\* str.__lt__: the order Path objects of one directory sort in.
RECURSIVE StrLess(_, _)
StrLess(a, b) ==
    IF a = <<>> THEN b # <<>>
    ELSE IF b = <<>> THEN FALSE
    ELSE IF Head(a) = Head(b) THEN StrLess(Tail(a), Tail(b))
    ELSE CharCode(Head(a)) < CharCode(Head(b))

RECURSIVE SortedNames(_)
SortedNames(S) ==
    IF S = {} THEN <<>>
    ELSE LET m == CHOOSE x \in S : \A y \in S \ {x} : StrLess(x, y)
         IN <<m>> \o SortedNames(S \ {m})

\* 340-342: the lines of segments.txt, one per path of sorted(segment_paths)
\* (each line is written as  file '<name>').
ConcatList(paths) == SortedNames({SegName(paths[i]) : i \in DOMAIN paths})

\* The results of the pool with the filter of line 321 left out.
PoolResultsWithNone(w, k) == [i \in 1..(manifestLen - k) |-> k + i - 1]

\* executor.map gives the results in the order of the indices; None is dropped (321-322).
RECURSIVE PoolResults(_, _)
PoolResults(w, k) ==
    IF k >= manifestLen THEN <<>>
    ELSE (IF seg[w][k] = "done" THEN <<k>> ELSE <<>>) \o PoolResults(w, k + 1)


\* ----------------------------------------------------- download, phase 2
\* 320-327: the pool has a result for every index; the None results are
\* dropped and, when there were any, one entry is logged.
WPoolDone(w) ==
    /\ wpc[w] = "pool"
    /\ \A k \in SegIdx : seg[w][k] \in {"done", "none", "absent"}
    /\ segment_paths' = [segment_paths EXCEPT ![w] = PoolResults(w, 0)]
    /\ Exit(w, "writelist")
    /\ error_log' = IF Len(PoolResults(w, 0)) < manifestLen
                    THEN log_error(error_log, Name(w),
                                   <<"missing", manifestLen - Len(PoolResults(w, 0))>>)
                    ELSE error_log
    /\ UNCHANGED <<fsVars, inVars, readVars, retryVars, monVars, upVars, srvVars, cancellation_flag, sem, dlvVars, holds, seg, attempt,
                   requested, completed_segments, present0>>

\* 338-355: segments.txt is written and ffmpeg started in the working
\* directory; without the directory open() raises and the process ends with
\* the exception (nothing after line 335 catches it).
WWriteList(w) ==
    /\ wpc[w] = "writelist"
    /\ IF Name(w) \in tsDir
       THEN /\ listFile' = [listFile EXCEPT ![Name(w)] = File(ConcatList(segment_paths[w]))]
            /\ Exit(w, "mux")
       ELSE /\ listFile' = listFile
            /\ Exit(w, "crashed")
    /\ UNCHANGED <<lockFile, outFile, tsDir, tsSegs, muxedFile, progressFile, inVars, readVars, retryVars, monVars, logVars, upVars, srvVars,
                   cancellation_flag, sem, dlvVars, holds, seg, attempt, requested,
                   completed_segments, segment_paths, present0>>

\* What ffmpeg needs to exit 0: a concat list that is not empty and whose
\* files exist.
MuxInputOk(n) ==
    /\ n \in tsDir
    /\ listFile[n] # NoFile
    /\ Len(Content(listFile[n])) > 0
    /\ \A i \in DOMAIN Content(listFile[n]) :
          \E k \in tsSegs[n] : SegName(k) = Content(listFile[n])[i]

\* 344-355, 371-376: ffmpeg exits 0 having written the muxed file; the record
\* is set to 100/100 next.
WMuxOk(w) ==
    /\ wpc[w] = "mux"
    /\ MuxInputOk(Name(w))
    /\ muxedFile' = muxedFile \cup {Name(w)}
    /\ Exit(w, "prog100")
    /\ UNCHANGED <<lockFile, outFile, tsDir, tsSegs, listFile, progressFile, inVars, readVars, retryVars, monVars, logVars, upVars, srvVars,
                   cancellation_flag, sem, dlvVars, holds, seg, attempt, requested,
                   completed_segments, segment_paths, present0>>

\* The failure branch if it removed the lock as the success path does.
WMuxFailUnlocks(w) ==
    /\ wpc[w] = "mux"
    /\ lockFile' = lockFile \ {Name(w)}
    /\ Exit(w, "mux_failed")
    /\ UNCHANGED <<outFile, tsDir, tsSegs, listFile, muxedFile, progressFile, inVars, readVars, retryVars, monVars, logVars,
                   upVars, srvVars, cancellation_flag, sem, dlvVars, holds, seg, attempt,
                   requested, completed_segments, segment_paths, present0>>

\* 357-369: ffmpeg exits non-zero; the errors are logged and download returns.
WMuxFail(w) ==
    /\ wpc[w] = "mux"
    /\ Exit(w, "mux_failed")
    /\ error_log' = log_error(log_error(error_log, Name(w), <<"ffmpeg">>),
                               Name(w), <<"ffmpeg_stderr">>)
    /\ UNCHANGED <<fsVars, inVars, readVars, retryVars, monVars, upVars, srvVars, cancellation_flag, sem, dlvVars, holds, seg, attempt,
                   requested, completed_segments, segment_paths, present0>>

\* 376: update_progress(filename, 100, 100, 0).
WProg100(w) ==
    /\ wpc[w] = "prog100"
    /\ progressFile' = update_progress(progressFile, Name(w), 100, 100)
    /\ Exit(w, "copy")
    /\ UNCHANGED <<lockFile, outFile, tsDir, tsSegs, listFile, muxedFile, inVars, readVars, retryVars, monVars, logVars, upVars, srvVars,
                   cancellation_flag, sem, dlvVars, holds, seg, attempt, requested,
                   completed_segments, segment_paths, present0>>

\* The publishing with shutil.copy2 left out: no output file is made.
WCopySkipped(w) ==
    /\ wpc[w] = "copy"
    /\ IF Name(w) \in muxedFile
       THEN outFile' = outFile /\ Exit(w, "unlink_tmp")
       ELSE outFile' = outFile /\ Exit(w, "crashed")
    /\ UNCHANGED <<lockFile, tsDir, tsSegs, listFile, muxedFile, progressFile, inVars, readVars, retryVars, monVars, logVars, upVars, srvVars,
                   cancellation_flag, sem, dlvVars, holds, seg, attempt, requested,
                   completed_segments, segment_paths, present0>>

\* 378: shutil.copy2 of the muxed file to the output path (raises without it).
WCopy(w) ==
    /\ wpc[w] = "copy"
    /\ IF Name(w) \in muxedFile
       THEN outFile' = outFile \cup {Name(w)} /\ Exit(w, "unlink_tmp")
       ELSE outFile' = outFile /\ Exit(w, "crashed")
    /\ UNCHANGED <<lockFile, tsDir, tsSegs, listFile, muxedFile, progressFile, inVars, readVars, retryVars, monVars, logVars, upVars, srvVars,
                   cancellation_flag, sem, dlvVars, holds, seg, attempt, requested,
                   completed_segments, segment_paths, present0>>

\* 380: temporary_file_path.unlink().
WUnlinkTmp(w) ==
    /\ wpc[w] = "unlink_tmp"
    /\ IF Name(w) \in muxedFile
       THEN muxedFile' = muxedFile \ {Name(w)} /\ Exit(w, "unlink_lock")
       ELSE muxedFile' = muxedFile /\ Exit(w, "crashed")
    /\ UNCHANGED <<lockFile, outFile, tsDir, tsSegs, listFile, progressFile, inVars, readVars, retryVars, monVars, logVars, upVars, srvVars,
                   cancellation_flag, sem, dlvVars, holds, seg, attempt, requested,
                   completed_segments, segment_paths, present0>>

\* 381: Path(output + ".lock").unlink() raises when the lock is gone.
WUnlinkLock(w) ==
    /\ wpc[w] = "unlink_lock"
    /\ IF Name(w) \in lockFile
       THEN lockFile' = lockFile \ {Name(w)} /\ Exit(w, "rmtree")
       ELSE lockFile' = lockFile /\ Exit(w, "crashed")
    /\ UNCHANGED <<outFile, tsDir, tsSegs, listFile, muxedFile, progressFile, inVars, readVars, retryVars, monVars, logVars, upVars, srvVars,
                   cancellation_flag, sem, dlvVars, holds, seg, attempt, requested,
                   completed_segments, segment_paths, present0>>

\* shutil.rmtree left out: the working directory stays.
RemoveTsFolderSkipped(n) == UNCHANGED <<tsDir, tsSegs, listFile, muxedFile, tmpSegs>>

\* The working directory of name n and everything in it is removed.
RemoveTsFolder(n) ==
    /\ tsDir' = tsDir \ {n}
    /\ tsSegs' = [tsSegs EXCEPT ![n] = {}]
    /\ listFile' = [listFile EXCEPT ![n] = NoFile]
    /\ muxedFile' = muxedFile \ {n}
    /\ tmpSegs' = [tmpSegs EXCEPT ![n] = {}]

\* 382: shutil.rmtree(ts_folder) raises when the directory is gone.
WRmtree(w) ==
    /\ wpc[w] = "rmtree"
    /\ IF Name(w) \in tsDir
       THEN RemoveTsFolder(Name(w)) /\ Exit(w, "release")
       ELSE UNCHANGED <<tsDir, tsSegs, listFile, muxedFile, tmpSegs>> /\ Exit(w, "crashed")
    /\ UNCHANGED <<lockFile, outFile, progressFile, inVars, readVars, slept, monVars, logVars, upVars, srvVars,
                   cancellation_flag, sem, dlvVars, holds, seg, attempt, requested,
                   completed_segments, segment_paths, present0>>

\* 383: semaphore.release() at the end of the success path.
WRelease(w) ==
    /\ wpc[w] = "release"
    /\ Release(w)
    /\ Exit(w, "done")
    /\ UNCHANGED <<fsVars, inVars, readVars, retryVars, monVars, logVars, upVars, srvVars, cancellation_flag, dlvVars, seg, attempt, requested,
                   completed_segments, segment_paths, present0>>

\* download() when the manifest loads, the directory is writable and every
\* request is answered: the steps every run takes, and ffmpeg's two outcomes.
downloadReliable(w) ==
    \/ WStart(w) \/ WProg0(w) \/ WCheck2(w) \/ WAcquire(w) \/ WCheck3(w) \/ WProg1(w)
    \/ WLoad(w)
    \/ (\E k \in SegIdx : SegBegin(w, k) \/ SegRequest(w, k) \/ SegStored(w, k))
    \/ WPoolDone(w) \/ WWriteList(w) \/ WMuxOk(w) \/ WMuxFail(w) \/ WProg100(w)
    \/ WCopy(w) \/ WUnlinkTmp(w) \/ WUnlinkLock(w) \/ WRmtree(w) \/ WRelease(w)

\* The failures of phase 1: the manifest, the directory, a segment request.
downloadFailures(w) ==
    \/ WLoadFail(w) \/ WTmpFail(w) \/ WFailRelease(w)
    \/ (\E k \in SegIdx : SegAttemptFailed(w, k))

\* What a worker does once the flag is set while a request is in flight.
downloadCancelled(w) == \E k \in SegIdx : SegChunkCancelled(w, k)

\* ------------------------------------------------ server.py: start_download
\* 356: max(1, min(16, int(max_parallel_downloads)))
Clamp(max_parallel_downloads) ==
    Max(MinParallel, Min(MaxParallel, max_parallel_downloads))

\* 310-342 reset_download_state, then 596-597 the thread of batch b is started.
\* A further batch is requested once cancel_download has answered.
StartDownload(b) ==
    /\ tpc[b] = "idle"
    /\ b = 1 \/ (tpc[1] # "idle" /\ kpc = "returned")
    /\ download_status' = "idle"
    /\ active_download_processes' = {}
    /\ current_download_semaphore' = 0
    /\ download_cancelled' = FALSE
    /\ cancellation_flag' = 0
    /\ total_lectures_to_download' = 0
    /\ completed_lectures_count' = 0
    /\ lecture_completion_status' = {}
    /\ download_progress' = 0
    /\ clear_progress_data
    /\ tpc' = [tpc EXCEPT ![b] = "init"]
    /\ UNCHANGED <<lockFile, outFile, tsDir, tsSegs, listFile, muxedFile, inVars, readVars, retryVars, active_downloads, logVars, upVars,
                   all_processes, kpc, flagSetInPool, sem, dlvVars, wVars>>

\* 377-385: the thread resets the globals again and reports "downloading".
ThreadInit(b) ==
    /\ tpc[b] = "init"
    /\ download_cancelled' = FALSE
    /\ active_download_processes' = {}
    /\ current_download_semaphore' = 0
    /\ clear_progress_data
    /\ lecture_completion_status' = {}
    /\ completed_lectures_count' = 0
    /\ download_progress' = 0
    /\ download_status' = "downloading"
    /\ tpc' = [tpc EXCEPT ![b] = "setup"]
    /\ UNCHANGED <<lockFile, outFile, tsDir, tsSegs, listFile, muxedFile, inVars, readVars, retryVars, active_downloads, total_lectures_to_download, logVars, upVars,
                   all_processes, kpc, flagSetInPool, cancellation_flag, sem, dlvVars, wVars>>

\* 387-482: the playlists are fetched, the semaphore is created and
\* download_list_of_videos is called (not at all when no playlist came back).
ThreadSetup(b) ==
    /\ tpc[b] = "setup"
    /\ sem' = [sem EXCEPT ![b] = maxParallel]
    /\ current_download_semaphore' = b
    /\ total_lectures_to_download' = Len(videos[b])
    /\ lecture_completion_status' =
           lecture_completion_status \ {Sanitize(videos[b][j][1]) : j \in DOMAIN videos[b]}
    /\ download_status' = "downloading"
    /\ download_progress' = 20
    /\ IF Len(videos[b]) > 0
       THEN /\ dpc' = [dpc EXCEPT ![b] = "enter"]
            /\ tpc' = [tpc EXCEPT ![b] = "dlv"]
       ELSE /\ dpc' = dpc
            /\ tpc' = [tpc EXCEPT ![b] = "monitor"]
    /\ UNCHANGED <<fsVars, inVars, readVars, retryVars, active_downloads, completed_lectures_count, logVars, upVars, download_cancelled, active_download_processes,
                   all_processes, kpc, flagSetInPool, cancellation_flag, didx,
                   child_process_list, sawExisting, lockedBy, wVars>>

\* 483-484: download_list_of_videos returned; its processes are added to
\* all_processes and to active_download_processes.
ThreadExtend(b) ==
    /\ tpc[b] = "dlv"
    /\ dpc[b] = "return"
    /\ all_processes' = [all_processes EXCEPT ![b] = @ \cup child_process_list[b]]
    /\ active_download_processes' = active_download_processes \cup child_process_list[b]
    /\ dpc' = [dpc EXCEPT ![b] = "idle"]
    /\ tpc' = [tpc EXCEPT ![b] = "monitor"]
    /\ UNCHANGED <<fsVars, inVars, readVars, retryVars, monVars, logVars, upVars, download_status, download_cancelled,
                   current_download_semaphore, kpc, flagSetInPool, cancellation_flag,
                   sem, didx, child_process_list, sawExisting, lockedBy, wVars>>

\* 500-529: the file names get_progress_data() returns with the given status.
EntriesWithStatus(store, status) ==
    IF store = NoFile THEN {}
    ELSE {n \in SanNames : /\ Content(store)[n] # NoRec
                           /\ Content(Content(store)[n]).status = status}

\* 522-523: the entries the loop adds to active_downloads.
DownloadingEntries(store) == EntriesWithStatus(store, "downloading")

\* 552: 20 + int(completed_lectures_count * (80 / total_lectures_to_download))
OverallProgress(completed, total) == 20 + (completed * 80) \div total

\* 494-535: the head of one pass of the monitoring loop: the loop ends when no
\* process is left or download_cancelled is set; otherwise the ProgressStore is
\* read, its "downloading" entries are counted and every "completed" entry not
\* yet marked is marked and counted.
ThreadMonitorRead(b) ==
    /\ tpc[b] = "monitor"
    /\ IF all_processes[b] # {} /\ ~download_cancelled
       THEN /\ active_downloads' = [active_downloads EXCEPT ![b] =
                                       Cardinality(DownloadingEntries(progressFile))]
            /\ lecture_completion_status' =
                   lecture_completion_status \cup EntriesWithStatus(progressFile, "completed")
            /\ completed_lectures_count' = completed_lectures_count +
                   Cardinality(EntriesWithStatus(progressFile, "completed")
                                   \ lecture_completion_status)
            /\ tpc' = [tpc EXCEPT ![b] = "prune"]
       ELSE /\ tpc' = [tpc EXCEPT ![b] = "finish"]
            /\ UNCHANGED <<active_downloads, lecture_completion_status,
                           completed_lectures_count>>
    /\ UNCHANGED <<fsVars, inVars, readVars, retryVars, total_lectures_to_download, download_progress,
                   logVars, upVars, download_status, download_cancelled,
                   active_download_processes, current_download_semaphore, all_processes,
                   kpc, flagSetInPool, cancellation_flag, sem, dlvVars, wVars>>

\* 537-575: the rest of the pass: the processes that are not alive leave
\* all_processes and, when there are lectures to download, the status is
\* "downloading" with the overall progress; then the thread sleeps a second.
ThreadMonitorPrune(b) ==
    /\ tpc[b] = "prune"
    /\ all_processes' = [all_processes EXCEPT ![b] = {w \in @ : Alive(w)}]
    /\ IF total_lectures_to_download > 0
       THEN /\ download_status' = "downloading"
            /\ download_progress' =
                   OverallProgress(completed_lectures_count, total_lectures_to_download)
       ELSE UNCHANGED <<download_status, download_progress>>
    /\ tpc' = [tpc EXCEPT ![b] = "monitor"]
    /\ UNCHANGED <<fsVars, inVars, readVars, retryVars, active_downloads, total_lectures_to_download,
                   completed_lectures_count, lecture_completion_status,
                   logVars, upVars, download_cancelled, active_download_processes,
                   current_download_semaphore, kpc, flagSetInPool, cancellation_flag,
                   sem, dlvVars, wVars>>

ThreadMonitor(b) == ThreadMonitorRead(b) \/ ThreadMonitorPrune(b)

\* The end of the thread with the shared flag reset as download_cancelled is.
ThreadFinishClearsFlag(b) ==
    /\ tpc[b] = "finish"
    /\ active_download_processes' = {}
    /\ current_download_semaphore' = 0
    /\ download_cancelled' = FALSE
    /\ cancellation_flag' = 0
    /\ download_status' = "completed"
    /\ download_progress' = 100
    /\ tpc' = [tpc EXCEPT ![b] = "ended"]
    /\ UNCHANGED <<fsVars, inVars, readVars, retryVars, active_downloads, total_lectures_to_download,
                   completed_lectures_count, lecture_completion_status, logVars, upVars, all_processes, kpc, flagSetInPool,
                   sem, dlvVars, wVars>>

\* 578-584: after the loop.
ThreadFinish(b) ==
    /\ tpc[b] = "finish"
    /\ active_download_processes' = {}
    /\ current_download_semaphore' = 0
    /\ download_cancelled' = FALSE
    /\ download_status' = "completed"
    /\ download_progress' = 100
    /\ tpc' = [tpc EXCEPT ![b] = "ended"]
    /\ UNCHANGED <<fsVars, inVars, readVars, retryVars, active_downloads, total_lectures_to_download,
                   completed_lectures_count, lecture_completion_status, logVars, upVars, all_processes, kpc, flagSetInPool, cancellation_flag,
                   sem, dlvVars, wVars>>

download_thread(b) ==
    \/ ThreadInit(b) \/ ThreadSetup(b) \/ ThreadExtend(b) \/ ThreadMonitor(b)
    \/ ThreadFinish(b)

\* ----------------------------------------------- server.py: cancel_download
\* Worker w's pool has a segment that is not yet stored or given up.
Fetching(w) == \E k \in SegIdx : seg[w][k] \in {"pending", "try", "inflight"}


\* 623-630: both flags are set. kill_all_python_download_processes (696-736)
\* kills the processes named python whose command line holds one of its
\* keywords: a worker has the command line of the server (fork) or of
\* multiprocessing's bootstrap (spawn), which hold none, so it kills no worker.
CancelSetFlags ==
    /\ kpc = "idle"
    /\ tpc[1] # "idle"
    /\ download_cancelled' = TRUE
    /\ cancellation_flag' = 1
    /\ flagSetInPool' = {w \in Workers : wpc[w] = "pool" /\ Fetching(w)}
    /\ kpc' = "kill"
    /\ UNCHANGED <<fsVars, inVars, readVars, retryVars, monVars, logVars, upVars, download_status, active_download_processes,
                   current_download_semaphore, tpc, all_processes, sem, dlvVars, wVars>>

\* 637, 738-851 kill_all_download_processes: every process of
\* active_download_processes that is alive is killed with its children
\* (ffmpeg); the scan by command line finds no worker, as above.
kill_all_download_processes ==
    /\ kpc = "kill"
    /\ wpc' = [w \in Workers |->
                 IF w \in active_download_processes /\ Alive(w) THEN "killed" ELSE wpc[w]]
    /\ kpc' = "semaphore"
    /\ UNCHANGED <<fsVars, inVars, readVars, retryVars, monVars, logVars, upVars, download_status, download_cancelled,
                   active_download_processes, current_download_semaphore, tpc,
                   all_processes, flagSetInPool, cancellation_flag, sem, dlvVars,
                   holds, seg, attempt, requested, completed_segments, segment_paths,
                   present0>>

\* 644, 853-877 cleanup_semaphore: release() is called ReleaseTries times (a
\* multiprocessing.Semaphore has no upper bound, so none raises ValueError).
cleanup_semaphore ==
    /\ kpc = "semaphore"
    /\ IF current_download_semaphore # 0
       THEN sem' = [sem EXCEPT ![current_download_semaphore] = @ + ReleaseTries]
       ELSE sem' = sem
    /\ current_download_semaphore' = 0
    /\ kpc' = "clear"
    /\ UNCHANGED <<fsVars, inVars, readVars, retryVars, monVars, logVars, upVars, download_status, download_cancelled,
                   active_download_processes, tpc, all_processes, flagSetInPool,
                   cancellation_flag, dlvVars, wVars>>

\* 647-656: the tracking globals and the ProgressStore are cleared and the
\* status is set to idle.
CancelClear ==
    /\ kpc = "clear"
    /\ active_download_processes' = {}
    /\ current_download_semaphore' = 0
    /\ clear_progress_data
    /\ download_status' = "idle"
    /\ download_progress' = 0
    /\ kpc' = "sweep"
    /\ UNCHANGED <<lockFile, outFile, tsDir, tsSegs, listFile, muxedFile, inVars, readVars, retryVars, active_downloads, total_lectures_to_download,
                   completed_lectures_count, lecture_completion_status, logVars, upVars,
                   download_cancelled, tpc, all_processes, flagSetInPool,
                   cancellation_flag, sem, dlvVars, wVars>>

\* 659, 892-959 aggressive_cleanup: every *.lock under the configured output
\* folder (taken to hold the batch's folder) is removed; when either flag is
\* set, every *_ts directory of the temp folder; and the progress file.
aggressive_cleanup ==
    /\ kpc = "sweep"
    /\ lockFile' = {}
    /\ IF download_cancelled \/ cancellation_flag = 1
       THEN /\ tsDir' = {}
            /\ tsSegs' = [n \in SanNames |-> {}]
            /\ listFile' = [n \in SanNames |-> NoFile]
            /\ muxedFile' = {}
            /\ tmpSegs' = [n \in SanNames |-> {}]
       ELSE UNCHANGED <<tsDir, tsSegs, listFile, muxedFile, tmpSegs>>
    /\ progressFile' = NoFile
    /\ kpc' = "final"
    /\ UNCHANGED <<outFile, inVars, readVars, slept, monVars, logVars, upVars, download_status, download_cancelled,
                   active_download_processes, current_download_semaphore, tpc,
                   all_processes, flagSetInPool, cancellation_flag, sem, dlvVars, wVars>>

\* 661-690, 961-982 final_lock_cleanup: the locks are removed once more, the
\* last scan by command line finds no worker, and the handler answers.
final_lock_cleanup ==
    /\ kpc = "final"
    /\ lockFile' = {}
    /\ kpc' = "returned"
    /\ UNCHANGED <<outFile, tsDir, tsSegs, listFile, muxedFile, progressFile, inVars, readVars, retryVars, monVars, logVars, upVars,
                   download_status, download_cancelled, active_download_processes,
                   current_download_semaphore, tpc, all_processes, flagSetInPool,
                   cancellation_flag, sem, dlvVars, wVars>>

cancel_download ==
    \/ CancelSetFlags \/ kill_all_download_processes \/ cleanup_semaphore
    \/ CancelClear \/ aggressive_cleanup \/ final_lock_cleanup

\* ------------------------------------------------------------------ states
TypeInitFiles ==
    /\ error_log = <<>>
    /\ lockFile = {} /\ outFile = {} /\ tsDir = {} /\ muxedFile = {}
    /\ tsSegs = [n \in SanNames |-> {}]
    /\ listFile = [n \in SanNames |-> NoFile]
    /\ progressFile = NoFile

\* The globals as the module sets them (server.py:173-179), no request made.
InitServer ==
    /\ download_status = "idle"
    /\ download_cancelled = FALSE
    /\ active_download_processes = {}
    /\ current_download_semaphore = 0
    /\ tpc = [b \in Callers |-> "idle"]
    /\ all_processes = [b \in Callers |-> {}]
    /\ kpc = "idle"
    /\ flagSetInPool = {}
    /\ gpc = "idle"
    /\ got = [n \in SanNames |-> NoRec]
    /\ caught = "none"

\* No process is inside update_progress; every write so far was whole.
InitUpdate ==
    /\ ucalls = [w \in Workers |-> <<>>]
    /\ upc = [w \in Workers |-> "idle"]
    /\ progress_data = [w \in Workers |-> [n \in SanNames |-> NoRec]]
    /\ fdAt = [w \in Workers |-> "none"]
    /\ tmpFile = NoFile
    /\ tmpBytes = "empty"
    /\ progressBytes = "whole"

InitWorkers ==
    /\ InitServer
    /\ InitUpdate
    /\ wpc = [w \in Workers |-> "none"]
    /\ holds = {}
    /\ seg = [w \in Workers |-> [k \in SegIdx |-> "absent"]]
    /\ attempt = [w \in Workers |-> [k \in SegIdx |-> 0]]
    /\ requested = [w \in Workers |-> {}]
    /\ completed_segments = [w \in Workers |-> 0]
    /\ segment_paths = [w \in Workers |-> <<>>]
    /\ present0 = [w \in Workers |-> {}]
    /\ slept = [w \in Workers |-> [k \in SegIdx |-> <<>>]]
    /\ tmpSegs = [n \in SanNames |-> {}]
    /\ active_downloads = [b \in Callers |-> 0]
    /\ total_lectures_to_download = 0
    /\ completed_lectures_count = 0
    /\ lecture_completion_status = {}
    /\ download_progress = 0

\* Two orchestrator instances, each calling download_list_of_videos once with
\* its own semaphore over one output folder; their lists sanitize to the same
\* file names.
InitLock ==
    /\ TypeInitFiles
    /\ InitWorkers
    /\ videos \in {[c \in Callers |-> JobList(IF c = 1 THEN "/" ELSE s, LockJobs)] :
                      s \in Separators}
    /\ manifestLen = 1
    /\ maxParallel = 1
    /\ cancellation_flag = 0
    /\ sem = [c \in Callers |-> maxParallel]
    /\ dpc = [c \in Callers |-> "enter"]
    /\ didx = [c \in Callers |-> 1]
    /\ child_process_list = [c \in Callers |-> {}]
    /\ sawExisting = [c \in Callers |-> {}]
    /\ lockedBy = [c \in Callers |-> {}]

NextLock ==
    \/ \E c \in Callers : download_list_of_videos(c)
    \/ \E w \in Workers : downloadReliable(w)

SpecLock == InitLock /\ [][NextLock]_vars


\* One orchestrator calls download_list_of_videos twice with the same jobs
\* list, the second call (caller 2) after the first has returned; the output
\* folder may already hold outputs of earlier runs and locks made by the user.
InitRerun ==
    /\ InitWorkers
    /\ error_log = <<>>
    /\ videos = [c \in Callers |-> JobList("/", LockJobs)]
    /\ lockFile \in SUBSET {Sanitize(DisplayName("/", i)) : i \in 1..LockJobs}
    /\ outFile \in SUBSET {Sanitize(DisplayName("/", i)) : i \in 1..LockJobs}
    /\ tsDir = {} /\ muxedFile = {}
    /\ tsSegs = [n \in SanNames |-> {}]
    /\ listFile = [n \in SanNames |-> NoFile]
    /\ progressFile = NoFile
    /\ manifestLen = 1
    /\ maxParallel = 1
    /\ cancellation_flag = 0
    /\ sem = [c \in Callers |-> maxParallel]
    /\ dpc = [c \in Callers |-> IF c = 1 THEN "enter" ELSE "idle"]
    /\ didx = [c \in Callers |-> 1]
    /\ child_process_list = [c \in Callers |-> {}]
    /\ sawExisting = [c \in Callers |-> {}]
    /\ lockedBy = [c \in Callers |-> {}]

\* The second call is made once the first has returned.
DlvSecondCall ==
    /\ dpc[1] = "return"
    /\ dpc[2] = "idle"
    /\ dpc' = [dpc EXCEPT ![2] = "enter"]
    /\ UNCHANGED <<fsVars, inVars, readVars, retryVars, monVars, logVars, upVars, srvVars, cancellation_flag, sem, didx, child_process_list,
                   sawExisting, lockedBy, wVars>>

NextRerun ==
    \/ \E c \in Callers : download_list_of_videos(c)
    \/ DlvSecondCall
    \/ \E w \in Workers : downloadReliable(w)

SpecRerun == InitRerun /\ [][NextRerun]_vars

\* ------------------------------------------------------------------ claims

\* C1: of two orchestrator instances running download_list_of_videos over one
\* output folder with a job of the same sanitized name, at most one creates
\* the lock and starts a worker for it: no two workers spawned for one output
\* path are ever alive together.
C1_AtMostOneWorkerPerOutput ==
    \A v \in Workers, w \in Workers :
        (v # w /\ Alive(v) /\ Alive(w)) => Name(v) # Name(w)

\* C2: a job whose lock or output exists when a call examines it is skipped:
\* the step that examines it moves on to the next job and leaves the lock
\* files, the output files, the working directories and the processes as they
\* are, and the call never creates a lock or a worker for that job.
Skips(c) ==
    \/ dpc[c] = "chk_lock" /\ curJob(c) \in lockFile
    \/ dpc[c] = "chk_out" /\ curJob(c) \in outFile

C2_ExistingJobIsSkipped ==
    [][\A c \in Callers :
          /\ (Skips(c) /\ <<dpc[c], didx[c]>> # <<dpc'[c], didx'[c]>>) =>
                /\ dpc'[c] = "loop" /\ didx'[c] = didx[c] + 1
                /\ UNCHANGED <<lockFile, outFile, tsDir, tsSegs, listFile, muxedFile, wpc>>
          /\ sawExisting'[c] \cap lockedBy'[c] = {}
          /\ \A j \in sawExisting'[c] : wpc'[<<c, j>>] = "none"]_vars

\* The second call has skipped a job for which the first call made the lock
\* and started the worker.
C2_Witness ==
    /\ dpc[2] = "return"
    /\ \E j \in sawExisting[2] : j \in lockedBy[1] /\ wpc[<<1, j>>] # "none"
    /\ \A w \in Workers : w[1] = 2 => wpc[w] = "none"


\* ------------------------------------------------------ the server's batches
RequestedParallel == {0}

\* The batches of the first request: <<lectures, segments of each>>.
BatchShapes == {<<NumJobs, 1>>, <<1, NumSegs>>}

\* The lock of a lecture that is in no batch of this server: left by a crashed
\* run, made by the user or owned by another instance (downloader.py:118).
OtherLock == Sanitize(DisplayName("/", NumJobs + 1))

\* The server has started; the output folder is empty or holds the lock of
\* another lecture. The first request brings NumJobs lectures, a request
\* after a cancellation brings a course without playlists.
Init ==
    /\ error_log = <<>>
    /\ lockFile \in {{}, {OtherLock}}
    /\ outFile = {} /\ tsDir = {} /\ muxedFile = {}
    /\ tsSegs = [n \in SanNames |-> {}]
    /\ listFile = [n \in SanNames |-> NoFile]
    /\ progressFile = NoFile
    /\ InitWorkers
    /\ \E shape \in BatchShapes :
          /\ videos = [b \in Callers |-> IF b = 1 THEN JobList("/", shape[1]) ELSE <<>>]
          /\ manifestLen = shape[2]
    /\ maxParallel \in {Clamp(r) : r \in RequestedParallel}
    /\ cancellation_flag = 0
    /\ sem = [c \in Callers |-> 0]
    /\ dpc = [c \in Callers |-> "idle"]
    /\ didx = [c \in Callers |-> 1]
    /\ child_process_list = [c \in Callers |-> {}]
    /\ sawExisting = [c \in Callers |-> {}]
    /\ lockedBy = [c \in Callers |-> {}]

Next ==
    \/ \E b \in Callers : StartDownload(b) \/ download_thread(b) \/ download_list_of_videos(b)
    \/ \E w \in Workers : downloadReliable(w) \/ downloadCancelled(w)
    \/ cancel_download

Spec == Init /\ [][Next]_vars


\* C3: once cancel_download has answered (and before the next request), no
\* worker process spawned for the batch is alive.
C3_NoWorkerAliveAfterCancel ==
    (kpc = "returned" /\ tpc[2] = "idle") => \A w \in Workers : ~Alive(w)

\* C4: once cancel_download has answered (and before the next request), no
\* lock file exists under the output folder and the ProgressStore file does
\* not exist.
C4_NoLockNoProgressAfterCancel ==
    (kpc = "returned" /\ tpc[2] = "idle") => (lockFile = {} /\ progressFile = NoFile)

\* Where a worker is once it has gone on to ffmpeg.
MuxPcs == {"mux", "mux_failed", "prog100", "copy", "unlink_tmp", "unlink_lock",
           "rmtree", "release", "done"}

\* C5: a worker that had a segment still to fetch when the flag was set never
\* goes on to ffmpeg and its lecture's output file is never created.
C5_CancelledJobNeverMuxed ==
    \A w \in flagSetInPool : wpc[w] \notin MuxPcs /\ Name(w) \notin outFile

\* Where a worker is while it holds a slot and does manifest, segment or mux work.
WorkPcs == {"prog1", "load", "pool", "writelist", "mux", "prog100", "copy",
            "unlink_tmp", "unlink_lock", "rmtree"}

\* C6: at every moment at most max_parallel workers of one batch have
\* acquired the semaphore and are doing manifest, segment or mux work.
C6_AtMostMaxParallelWorking ==
    \A b \in Callers :
        Cardinality({w \in holds : w[1] = b /\ wpc[w] \in WorkPcs}) <= maxParallel


\* ------------------------------------------------- one batch, never cancelled
\* download_list_of_videos is called once with NumJobs lectures and a
\* semaphore of one slot; nobody cancels. Manifests, directories, requests
\* and ffmpeg may fail.
InitBatch ==
    /\ TypeInitFiles
    /\ InitWorkers
    /\ videos = [c \in Callers |-> IF c = 1 THEN JobList("/", NumJobs) ELSE <<>>]
    /\ manifestLen = 1
    /\ maxParallel = Clamp(1)
    /\ cancellation_flag = 0
    /\ sem = [c \in Callers |-> maxParallel]
    /\ dpc = [c \in Callers |-> IF c = 1 THEN "enter" ELSE "idle"]
    /\ didx = [c \in Callers |-> 1]
    /\ child_process_list = [c \in Callers |-> {}]
    /\ sawExisting = [c \in Callers |-> {}]
    /\ lockedBy = [c \in Callers |-> {}]

\* Everything download() does when the flag stays clear.
download(w) == downloadReliable(w) \/ downloadFailures(w)

NextBatch ==
    \/ download_list_of_videos(1)
    \/ \E w \in Workers : download(w)

\* The operating system schedules every process that can take a step.
FairBatch ==
    /\ WF_vars(download_list_of_videos(1))
    /\ \A w \in Workers : WF_vars(download(w))

SpecBatch == InitBatch /\ [][NextBatch]_vars /\ FairBatch

\* How a worker process can have ended on its own.
EndedPcs == {"cancelled", "failed", "mux_failed", "crashed", "done"}

\* C7: a worker whose process has ended holds no slot of the semaphore: it
\* released the slot it acquired, on every exit path.
C7_EndedWorkerHoldsNoSlot ==
    \A w \in Workers : wpc[w] \in EndedPcs => w \notin holds

\* C8: with no cancellation and fair scheduling, every spawned worker
\* eventually reaches a terminal state, whatever happens to its siblings.
C8_EveryWorkerTerminates ==
    \A w \in Workers : (wpc[w] = "start") ~> (wpc[w] \in EndedPcs)


\* ------------------------------------------- one lecture over an old directory
\* One lecture is downloaded; its working directory may hold segment files of
\* an earlier run. Nobody cancels; requests and ffmpeg may fail.
WorkerOne == <<1, 1>>

InitWorker ==
    /\ InitWorkers
    /\ error_log = <<>>
    /\ videos = [c \in Callers |-> IF c = 1 THEN JobList("/", 1) ELSE <<>>]
    /\ manifestLen \in 0..NumSegs
    /\ lockFile = {} /\ outFile = {} /\ muxedFile = {}
    /\ \E S \in SUBSET SegIdx :
          /\ \A k \in S : k < manifestLen
          /\ tsSegs = [n \in SanNames |-> IF n = Name(WorkerOne) THEN S ELSE {}]
          /\ tsDir \in {D \in SUBSET {Name(WorkerOne)} : S # {} => D # {}}
    /\ listFile = [n \in SanNames |-> NoFile]
    /\ progressFile = NoFile
    /\ maxParallel = Clamp(1)
    /\ cancellation_flag = 0
    /\ sem = [c \in Callers |-> maxParallel]
    /\ dpc = [c \in Callers |-> IF c = 1 THEN "enter" ELSE "idle"]
    /\ didx = [c \in Callers |-> 1]
    /\ child_process_list = [c \in Callers |-> {}]
    /\ sawExisting = [c \in Callers |-> {}]
    /\ lockedBy = [c \in Callers |-> {}]

NextWorker ==
    \/ download_list_of_videos(1)
    \/ download(WorkerOne)

SpecWorker == InitWorker /\ [][NextWorker]_vars

\* The indices a sequence of pool results holds.
Range(f) == {f[i] : i \in DOMAIN f}

\* Where a worker is between the end of the pool and the removal of the
\* working directory.
AfterPoolPcs == {"writelist", "mux", "mux_failed", "prog100", "copy", "unlink_tmp",
                 "unlink_lock", "rmtree"}

\* C9: download makes no request for an index whose segment file was in the
\* working directory when it began; once the pool is done it has requested
\* exactly the other indices of the manifest, the pool has returned the
\* segments that were present, and the concat list names them.
C9_ResumeRequestsOnlyMissing ==
    \A w \in Workers :
        /\ requested[w] \cap present0[w] = {}
        /\ wpc[w] \in AfterPoolPcs =>
              /\ requested[w] = {k \in SegIdx : k < manifestLen} \ present0[w]
              /\ present0[w] \subseteq Range(segment_paths[w])
        /\ wpc[w] = "mux" =>
              \A k \in present0[w] : SegName(k) \in Range(Content(listFile[Name(w)]))

\* The pool is done for a manifest of which one part was on disk and the
\* other part was requested, and the list is written.
C9_Witness ==
    /\ wpc[WorkerOne] = "mux"
    /\ present0[WorkerOne] # {}
    /\ requested[WorkerOne] # {}
    /\ requested[WorkerOne] \cup present0[WorkerOne] = {k \in SegIdx : k < manifestLen}

\* ------------------------------------------------------- the concat list
\* Indices around the places where the decimal form of an index gains a digit.
SampleIndices == {0, 1, 9, 10, 10^PadWidth - 1, 10^PadWidth}

\* executor.map yields the results in the order of the indices.
RECURSIVE InIndexOrder(_)
InIndexOrder(S) ==
    IF S = {} THEN <<>>
    ELSE LET m == CHOOSE x \in S : \A y \in S : x <= y
         IN <<m>> \o InIndexOrder(S \ {m})

\* The pool of one worker is done: the segments of a set of indices were
\* fetched, the others failed; the list is about to be written.
InitConcat ==
    /\ InitServer
    /\ InitUpdate
    /\ error_log = <<>>
    /\ videos = [c \in Callers |-> IF c = 1 THEN JobList("/", 1) ELSE <<>>]
    /\ manifestLen = 10^PadWidth + 1
    /\ \E S \in SUBSET SampleIndices :
          /\ tsSegs = [n \in SanNames |-> IF n = Name(WorkerOne) THEN S ELSE {}]
          /\ segment_paths = [w \in Workers |-> IF w = WorkerOne THEN InIndexOrder(S) ELSE <<>>]
    /\ tsDir = {Name(WorkerOne)}
    /\ lockFile = {Name(WorkerOne)} /\ outFile = {} /\ muxedFile = {}
    /\ listFile = [n \in SanNames |-> NoFile]
    /\ progressFile = NoFile
    /\ maxParallel = Clamp(1)
    /\ cancellation_flag = 0
    /\ sem = [c \in Callers |-> IF c = 1 THEN 0 ELSE maxParallel]
    /\ dpc = [c \in Callers |-> IF c = 1 THEN "return" ELSE "idle"]
    /\ didx = [c \in Callers |-> IF c = 1 THEN 2 ELSE 1]
    /\ child_process_list = [c \in Callers |-> IF c = 1 THEN {WorkerOne} ELSE {}]
    /\ sawExisting = [c \in Callers |-> {}]
    /\ lockedBy = [c \in Callers |-> IF c = 1 THEN {1} ELSE {}]
    /\ wpc = [w \in Workers |-> IF w = WorkerOne THEN "writelist" ELSE "none"]
    /\ holds = {WorkerOne}
    /\ seg = [w \in Workers |-> [k \in SegIdx |-> "absent"]]
    /\ attempt = [w \in Workers |-> [k \in SegIdx |-> 0]]
    /\ requested = [w \in Workers |-> {}]
    /\ completed_segments = [w \in Workers |-> 0]
    /\ present0 = [w \in Workers |-> {}]
    /\ slept = [w \in Workers |-> [k \in SegIdx |-> <<>>]]
    /\ tmpSegs = [n \in SanNames |-> {}]
    /\ active_downloads = [b \in Callers |-> 0]
    /\ total_lectures_to_download = 0
    /\ completed_lectures_count = 0
    /\ lecture_completion_status = {}
    /\ download_progress = 0

NextConcat == WWriteList(WorkerOne)

SpecConcat == InitConcat /\ [][NextConcat]_vars

\* The index a segment name stands for: int(name[:-3]).
RECURSIVE DigitsValue(_)
DigitsValue(s) ==
    IF s = <<>> THEN 0
    ELSE DigitsValue(SubSeq(s, 1, Len(s) - 1)) * 10 + (CharCode(s[Len(s)]) - 48)

NameIndex(name) == DigitsValue(SubSeq(name, 1, Len(name) - 3))

\* C10: segments.txt has one line for each fetched segment and its lines are
\* in ascending order of the segments' manifest indices.
C10_ConcatListInIndexOrder ==
    \A w \in Workers :
        wpc[w] = "mux" =>
            LET lines == Content(listFile[Name(w)])
            IN /\ Len(lines) = Len(segment_paths[w])
               /\ {NameIndex(lines[i]) : i \in DOMAIN lines} = Range(segment_paths[w])
               /\ \A i \in DOMAIN lines, j \in DOMAIN lines :
                     i < j => NameIndex(lines[i]) < NameIndex(lines[j])


\* ------------------------------------------------ segments that fail for good
\* The indices of worker w's manifest, and those whose download_ts returned
\* None after max_retries attempts.
ManifestIdx == {k \in SegIdx : k < manifestLen}
FailedSegments(w) == {k \in ManifestIdx : seg[w][k] = "none"}

\* C11: when a set F of segments fails all max_retries attempts, the pool
\* returns exactly the segments not in F, the job does not fail for it, and
\* ffmpeg is run on a list of exactly those segments.
C11_MuxOfFetchedSegments ==
    \A w \in Workers :
        /\ \A k \in FailedSegments(w) : attempt[w][k] = max_retries
        /\ wpc[w] \in AfterPoolPcs =>
              Range(segment_paths[w]) = ManifestIdx \ FailedSegments(w)
        /\ wpc[w] = "mux" =>
              Range(Content(listFile[Name(w)])) =
                  {SegName(k) : k \in ManifestIdx \ FailedSegments(w)}
        /\ wpc[w] \in {"fail_release", "failed"} => \A k \in SegIdx : attempt[w][k] = 0

\* ffmpeg is about to run for a lecture of which one part of the segments
\* failed for good and the other part was fetched.
C11_Witness ==
    /\ wpc[WorkerOne] = "mux"
    /\ FailedSegments(WorkerOne) # {}
    /\ Range(segment_paths[WorkerOne]) # {}


\* The entries of download_errors.log written for the lecture of name n.
LogOf(n) == SelectSeq(error_log, LAMBDA e : e[1] = n)

\* Where a worker is once ffmpeg has exited 0.
MuxedPcs == {"prog100", "copy", "unlink_tmp", "unlink_lock", "rmtree", "release", "done"}

\* C12: for a lecture whose mux succeeded, download_errors.log holds one
\* entry for each segment that failed for good, naming its index, and no
\* other entry.
C12_OneLogEntryPerFailedSegment ==
    \A w \in Workers :
        wpc[w] \in MuxedPcs =>
            /\ Len(LogOf(Name(w))) = Cardinality(FailedSegments(w))
            /\ \A k \in FailedSegments(w) :
                  \E i \in DOMAIN LogOf(Name(w)) : LogOf(Name(w))[i] = <<Name(w), "segment", k>>


\* --------------------------------- update_progress, statement by statement
\* The processes of one batch that call update_progress.
Updaters == {w \in Workers : w[1] = 1}

EmptyData == [n \in SanNames |-> NoRec]
Entries(data) == Cardinality({n \in SanNames : data[n] # NoRec})

\* What a file holds after a document is written at its start: the document
\* alone if the file was empty or held a shorter text, the document followed
\* by the rest of the old text if it held a longer one. A document with more
\* entries is longer; for as many entries the lengths depend on the digits
\* of the numbers (rate, last_update) and either can be the longer.
BytesAfterWrite(bytes, old, new) ==
    IF bytes = "empty" \/ Entries(new) > Entries(old) THEN {"whole"}
    ELSE IF Entries(new) < Entries(old) THEN {"mixed"}
    ELSE {"whole", "mixed"}

\* 29-36: the call begins; the file is read if it exists, and anything that
\* does not parse counts as an empty object.
UpRead(w) ==
    /\ upc[w] = "idle"
    /\ ucalls[w] # <<>>
    /\ progress_data' = [progress_data EXCEPT ![w] =
           IF progressFile # NoFile /\ progressBytes = "whole"
           THEN Content(progressFile) ELSE EmptyData]
    /\ upc' = [upc EXCEPT ![w] = "open"]
    /\ UNCHANGED <<fsVars, inVars, readVars, retryVars, monVars, logVars, ucalls, fdAt, tmpFile, tmpBytes, progressBytes,
                   srvVars, cancellation_flag, sem, dlvVars, wVars>>

\* 38-61: the record is computed and open(temp_file, 'w') creates the
\* temporary file, or truncates the one that is there.
UpOpen(w) ==
    /\ upc[w] = "open"
    /\ tmpFile' = IF tmpFile = NoFile THEN File(EmptyData) ELSE tmpFile
    /\ tmpBytes' = "empty"
    /\ fdAt' = [fdAt EXCEPT ![w] = "tmp"]
    /\ upc' = [upc EXCEPT ![w] = "write"]
    /\ UNCHANGED <<fsVars, inVars, readVars, retryVars, monVars, logVars, ucalls, progress_data, progressBytes,
                   srvVars, cancellation_flag, sem, dlvVars, wVars>>

\* The object the call of w writes.
NewData(w) ==
    Content(update_progress(File(progress_data[w]), Name(w),
                            Head(ucalls[w])[1], Head(ucalls[w])[2]))

\* 62: json.dump and the close write the document at the start of the file
\* that was opened, wherever a rename has put it meanwhile.
UpWrite(w) ==
    /\ upc[w] = "write"
    /\ \/ /\ fdAt[w] = "tmp"
          /\ tmpFile' = File(NewData(w))
          /\ tmpBytes' \in BytesAfterWrite(tmpBytes, Content(tmpFile), NewData(w))
          /\ UNCHANGED <<progressFile, progressBytes>>
       \/ /\ fdAt[w] = "progress"
          /\ progressFile' = File(NewData(w))
          /\ progressBytes' \in BytesAfterWrite(progressBytes, Content(progressFile), NewData(w))
          /\ UNCHANGED <<tmpFile, tmpBytes>>
       \/ /\ fdAt[w] = "gone"
          /\ UNCHANGED <<progressFile, progressBytes, tmpFile, tmpBytes>>
    /\ fdAt' = [fdAt EXCEPT ![w] = "none"]
    /\ upc' = [upc EXCEPT ![w] = "replace"]
    /\ UNCHANGED <<lockFile, outFile, tsDir, tsSegs, listFile, muxedFile, inVars, readVars, retryVars, monVars, logVars,
                   ucalls, progress_data, srvVars, cancellation_flag, sem, dlvVars, wVars>>

\* 63-68: temp_file.replace(PROGRESS_FILE) gives the temporary file the name
\* of the ProgressStore file; when another call has renamed it already, the
\* exception is caught and the call ends.
UpReplace(w) ==
    /\ upc[w] = "replace"
    /\ IF tmpFile # NoFile
       THEN /\ progressFile' = tmpFile
            /\ progressBytes' = tmpBytes
            /\ tmpFile' = NoFile
            /\ fdAt' = [v \in Workers |->
                          IF fdAt[v] = "tmp" THEN "progress"
                          ELSE IF fdAt[v] = "progress" THEN "gone" ELSE fdAt[v]]
       ELSE UNCHANGED <<progressFile, progressBytes, tmpFile, fdAt>>
    /\ tmpBytes' = tmpBytes
    /\ ucalls' = [ucalls EXCEPT ![w] = Tail(@)]
    /\ upc' = [upc EXCEPT ![w] = "idle"]
    /\ UNCHANGED <<lockFile, outFile, tsDir, tsSegs, listFile, muxedFile, inVars, readVars, retryVars, monVars, logVars,
                   progress_data, srvVars, cancellation_flag, sem, dlvVars, wVars>>

update_progress_steps(w) == UpRead(w) \/ UpOpen(w) \/ UpWrite(w) \/ UpReplace(w)

\* The calls download() makes for a lecture of len segments whose requests
\* and mux succeed: lines 148 and 168, 299 once per segment, 376.
ProgressTotal == 100
RECURSIVE SegmentCalls(_, _)
SegmentCalls(i, len) ==
    IF i > len THEN <<>>
    ELSE <<(<<SegPercent(i, len), ProgressTotal>>)>> \o SegmentCalls(i + 1, len)

ProgressCalls(len) ==
    <<(<<0, ProgressTotal>>), (<<1, ProgressTotal>>)>> \o SegmentCalls(1, len)
    \o <<(<<ProgressTotal, ProgressTotal>>)>>

\* The workers of one batch are running, each making its calls of
\* update_progress in its own process.
InitProgress ==
    /\ TypeInitFiles
    /\ InitServer
    /\ videos = [c \in Callers |-> IF c = 1 THEN JobList("/", NumJobs) ELSE <<>>]
    /\ manifestLen = 1
    /\ maxParallel = Clamp(NumJobs)
    /\ cancellation_flag = 0
    /\ sem = [c \in Callers |-> 0]
    /\ dpc = [c \in Callers |-> IF c = 1 THEN "return" ELSE "idle"]
    /\ didx = [c \in Callers |-> IF c = 1 THEN NumJobs + 1 ELSE 1]
    /\ child_process_list = [c \in Callers |-> IF c = 1 THEN Updaters ELSE {}]
    /\ sawExisting = [c \in Callers |-> {}]
    /\ lockedBy = [c \in Callers |-> IF c = 1 THEN JobIdx ELSE {}]
    /\ wpc = [w \in Workers |-> IF w \in Updaters THEN "prog0" ELSE "none"]
    /\ holds = {}
    /\ seg = [w \in Workers |-> [k \in SegIdx |-> "absent"]]
    /\ attempt = [w \in Workers |-> [k \in SegIdx |-> 0]]
    /\ requested = [w \in Workers |-> {}]
    /\ completed_segments = [w \in Workers |-> 0]
    /\ segment_paths = [w \in Workers |-> <<>>]
    /\ present0 = [w \in Workers |-> {}]
    /\ slept = [w \in Workers |-> [k \in SegIdx |-> <<>>]]
    /\ tmpSegs = [n \in SanNames |-> {}]
    /\ active_downloads = [b \in Callers |-> 0]
    /\ total_lectures_to_download = 0
    /\ completed_lectures_count = 0
    /\ lecture_completion_status = {}
    /\ download_progress = 0
    /\ ucalls = [w \in Workers |-> IF w \in Updaters THEN ProgressCalls(manifestLen) ELSE <<>>]
    /\ upc = [w \in Workers |-> "idle"]
    /\ progress_data = [w \in Workers |-> EmptyData]
    /\ fdAt = [w \in Workers |-> "none"]
    /\ tmpFile = NoFile
    /\ tmpBytes = "empty"
    /\ progressBytes = "whole"

NextProgress == \E w \in Updaters : update_progress_steps(w)

SpecProgress == InitProgress /\ [][NextProgress]_vars

\* What get_progress_data gives a reader: the object of the file, if the file
\* exists and parses.
Readable == progressFile # NoFile /\ progressBytes = "whole"

\* C13: the current of a lecture's record never decreases from one
\* observation of the ProgressStore to the next.
C13_CurrentNeverDecreases ==
    [][\A n \in SanNames :
          (/\ Readable /\ Readable'
           /\ Content(progressFile)[n] # NoRec
           /\ Content(progressFile')[n] # NoRec) =>
              Content(Content(progressFile')[n]).current >=
                  Content(Content(progressFile)[n]).current]_vars

\* C17: the ProgressStore file is absent or holds one complete document
\* written by one call of update_progress.
C17_NoTornProgressFile == progressFile = NoFile \/ progressBytes = "whole"


\* ------------------------------------------------- one call of update_progress
MaxCurrent == 101
CurrentArgs == (-1)..MaxCurrent
TotalArgs == {-1, 0, 1, 3, ProgressTotal}

\* One process calls update_progress once, with any integers.
InitRecord ==
    /\ TypeInitFiles
    /\ InitServer
    /\ videos = [c \in Callers |-> IF c = 1 THEN JobList("/", 1) ELSE <<>>]
    /\ manifestLen = 1
    /\ maxParallel = Clamp(1)
    /\ cancellation_flag = 0
    /\ sem = [c \in Callers |-> maxParallel]
    /\ dpc = [c \in Callers |-> "idle"]
    /\ didx = [c \in Callers |-> 1]
    /\ child_process_list = [c \in Callers |-> {}]
    /\ sawExisting = [c \in Callers |-> {}]
    /\ lockedBy = [c \in Callers |-> {}]
    /\ wpc = [w \in Workers |-> "none"]
    /\ holds = {}
    /\ seg = [w \in Workers |-> [k \in SegIdx |-> "absent"]]
    /\ attempt = [w \in Workers |-> [k \in SegIdx |-> 0]]
    /\ requested = [w \in Workers |-> {}]
    /\ completed_segments = [w \in Workers |-> 0]
    /\ segment_paths = [w \in Workers |-> <<>>]
    /\ present0 = [w \in Workers |-> {}]
    /\ slept = [w \in Workers |-> [k \in SegIdx |-> <<>>]]
    /\ tmpSegs = [n \in SanNames |-> {}]
    /\ active_downloads = [b \in Callers |-> 0]
    /\ total_lectures_to_download = 0
    /\ completed_lectures_count = 0
    /\ lecture_completion_status = {}
    /\ download_progress = 0
    /\ \E c \in CurrentArgs, t \in TotalArgs :
          ucalls = [w \in Workers |-> IF w = WorkerOne THEN <<(<<c, t>>)>> ELSE <<>>]
    /\ upc = [w \in Workers |-> "idle"]
    /\ progress_data = [w \in Workers |-> EmptyData]
    /\ fdAt = [w \in Workers |-> "none"]
    /\ tmpFile = NoFile
    /\ tmpBytes = "empty"
    /\ progressBytes = "whole"

NextRecord == update_progress_steps(WorkerOne)

SpecRecord == InitRecord /\ [][NextRecord]_vars

\* The records of the ProgressStore file.
Records == IF Readable
           THEN {Content(Content(progressFile)[n]) :
                    n \in {m \in SanNames : Content(progressFile)[m] # NoRec}}
           ELSE {}

\* 100 * c / t rounded to the nearest integer (t > 0).
RoundedPercent(c, t) == (200 * c + t) \div (2 * t)

\* C14: every record written has percentage = round(100 * current / total)
\* when total > 0 and 0 otherwise, and 0 <= percentage <= 100. (The equation
\* is asked of the calls with 0 <= current <= total only, where the rounded
\* quotient is itself between 0 and 100.)
C14_PercentageIsRounded ==
    \A r \in Records :
        /\ r.total <= 0 => r.percentage = 0
        /\ (r.total > 0 /\ 0 <= r.current /\ r.current <= r.total) =>
              r.percentage = RoundedPercent(r.current, r.total)
        /\ r.percentage \in 0..100

\* C15: every record written has status completed if and only if
\* current >= total > 0.
C15_CompletedIffAtTotal ==
    \A r \in Records :
        (r.status = "completed") <=> (r.current >= r.total /\ r.total > 0)

\* A record was written with current beyond total, and it is completed.
C15_Witness ==
    \E r \in Records : r.current > r.total /\ r.total > 0 /\ r.status = "completed"


\* C16: whenever the record of a running lecture is observed, its total is
\* the number of segments of the lecture's manifest and its current the
\* number of its segments completed so far.
C16_RecordCountsSegments ==
    \A w \in Workers :
        (Alive(w) /\ Readable /\ Content(progressFile)[Name(w)] # NoRec) =>
            LET r == Content(Content(progressFile)[Name(w)])
            IN r.total = manifestLen /\ r.current = completed_segments[w]


\* ------------------------------------------------------------ any display name
MaxNameLen == 2

RECURSIVE NamesUpTo(_)
NamesUpTo(len) ==
    IF len = 0 THEN {<<>>}
    ELSE NamesUpTo(len - 1) \cup
         {Append(n, ch) : n \in {m \in NamesUpTo(len - 1) : Len(m) = len - 1}, ch \in NameChars}

\* download_list_of_videos is called with one lecture of any display name and
\* runs up to the creation of the lock, which bears the derived file name.
InitNames ==
    /\ TypeInitFiles
    /\ InitWorkers
    /\ \E name \in NamesUpTo(MaxNameLen) :
          videos = [c \in Callers |-> IF c = 1 THEN <<(<<name, 1>>)>> ELSE <<>>]
    /\ manifestLen = 1
    /\ maxParallel = Clamp(1)
    /\ cancellation_flag = 0
    /\ sem = [c \in Callers |-> maxParallel]
    /\ dpc = [c \in Callers |-> IF c = 1 THEN "enter" ELSE "idle"]
    /\ didx = [c \in Callers |-> 1]
    /\ child_process_list = [c \in Callers |-> {}]
    /\ sawExisting = [c \in Callers |-> {}]
    /\ lockedBy = [c \in Callers |-> {}]

NextNames ==
    \/ DlvEnter(1) \/ DlvLoop(1) \/ DlvCheckLock(1) \/ DlvCheckOutput(1)
    \/ DlvCheckCancel(1) \/ DlvTouch(1)

SpecNames == InitNames /\ [][NextNames]_vars

\* The characters the claim lists, and the two readings of "control character".
ListedChars == {"/", "\\", ":", "*", "?", "\"", "<", ">", "|"}
AsciiControl == {ch \in NameChars : CodePoint[ch] \in (0..31) \cup {127}}
UpToSpace == {ch \in NameChars : CodePoint[ch] \in 0..32}

\* name with every character of the set replaced by "_", and ".mp4" appended.
Replaced(name, set) ==
    [i \in DOMAIN name |-> IF name[i] \in set THEN "_" ELSE name[i]] \o <<".", "m", "p", "4">>

Stem(n) == SubSeq(n, 1, Len(n) - 4)

\* The display name the call was given.
GivenName == videos[1][1][1]

\* C18 as stated: the derived file name is the display name with ".mp4"
\* appended in which every listed character and every ASCII control
\* character (0x00-0x1F and 0x7F) is replaced by "_", and its part before
\* ".mp4" holds none of them.
C18_SanitizedAsStated ==
    \A n \in lockFile :
        /\ n = Replaced(GivenName, ListedChars \cup AsciiControl)
        /\ \A i \in DOMAIN Stem(n) : Stem(n)[i] \notin ListedChars \cup AsciiControl

\* C18, amended: the derived file name is the display name with ".mp4"
\* appended in which every listed character and every character from 0x00
\* to 0x20 (the space included) is replaced by "_", and its part before
\* ".mp4" holds none of them.
C18_SanitizedUpToSpace ==
    \A n \in lockFile :
        /\ n = Replaced(GivenName, ListedChars \cup UpToSpace)
        /\ \A i \in DOMAIN Stem(n) : Stem(n)[i] \notin ListedChars \cup UpToSpace

\* The lock was made for a display name holding a backslash and a control
\* character.
C18_Witness ==
    /\ lockFile # {}
    /\ \E i \in DOMAIN GivenName : GivenName[i] = "\\"
    /\ \E i \in DOMAIN GivenName : GivenName[i] \in UpToSpace


\* C19: a worker whose ffmpeg exited non-zero has ended with its lock file
\* present, no output file, and its working directory, the segments and
\* segments.txt in place.
C19_MuxFailureLeavesLockAndFolder ==
    \A w \in Workers :
        wpc[w] = "mux_failed" =>
            /\ Name(w) \in lockFile
            /\ Name(w) \notin outFile
            /\ Name(w) \in tsDir
            /\ listFile[Name(w)] # NoFile
            /\ Range(segment_paths[w]) \subseteq tsSegs[Name(w)]

\* A worker has ended on ffmpeg's failure with fetched segments on disk.
C19_Witness ==
    \E w \in Workers : wpc[w] = "mux_failed" /\ tsSegs[Name(w)] # {}

\* C20: a worker that has ended after ffmpeg's success and the publishing
\* leaves the output file present, the working directory deleted, the lock
\* file removed and its slot released.
C20_SuccessPublishesAndCleans ==
    \A w \in Workers :
        wpc[w] = "done" =>
            /\ Name(w) \in outFile
            /\ Name(w) \notin tsDir
            /\ tsSegs[Name(w)] = {} /\ listFile[Name(w)] = NoFile
            /\ Name(w) \notin muxedFile
            /\ Name(w) \notin lockFile
            /\ w \notin holds

\* Both lectures of the batch are published.
C20_Witness ==
    /\ \E w \in Workers : wpc[w] = "done"
    /\ \A w \in Workers : Spawned(w) => wpc[w] = "done"
    /\ Cardinality(outFile) = NumJobs


\* ------------------------------------------------- the failures of phase 1
\* C21: a worker whose manifest did not load (or whose directory was not
\* writable) has requested no segment, written no segments.txt, produced no
\* muxed or output file, and once it has ended it holds no slot; a sibling
\* that ended has ended as its own run went, published or on ffmpeg's failure.
C21_ManifestFailureEndsQuietly ==
    \A w \in Workers :
        wpc[w] \in {"fail_release", "failed"} =>
            /\ requested[w] = {}
            /\ segment_paths[w] = <<>>
            /\ listFile[Name(w)] = NoFile
            /\ Name(w) \notin muxedFile
            /\ Name(w) \notin outFile
            /\ wpc[w] = "failed" => w \notin holds
            /\ \A v \in Workers \ {w} :
                   (wpc[v] = "done" => Name(v) \in outFile /\ Name(v) \notin lockFile)

\* A worker ended on a manifest that did not load (its directory was never
\* made) and its sibling published its lecture.
C21_Witness ==
    \E w \in Workers :
        /\ wpc[w] = "failed"
        /\ Name(w) \notin tsDir
        /\ \E v \in Workers \ {w} : wpc[v] = "done" /\ Name(v) \in outFile

\* C22: a worker that has ended on a failure of its manifest or of its
\* working directory has removed its lock file.
C22_FailedWorkerRemovedLock ==
    \A w \in Workers : wpc[w] = "failed" => Name(w) \notin lockFile


\* ----------------------------------------------------- who removes a lock
\* C23: a lock file is removed only by the worker spawned for that output, on
\* its completion path, or, when its batch is cancelled, with the locks that
\* batch made; a lock of a lecture of no batch is never removed.
C23_LockRemovedOnlyByItsWorker ==
    [][\A n \in lockFile \ lockFile' :
          \/ \E w \in Workers : /\ w[2] \in lockedBy[w[1]] /\ Name(w) = n
                                 /\ wpc[w] = "unlink_lock" /\ wpc'[w] = "rmtree"
          \/ \E b \in Callers : /\ kpc \in {"sweep", "final"}
                                 /\ \E j \in lockedBy[b] : Sanitize(videos[b][j][1]) = n]_vars


\* ------------------------------------------------- who writes the shared flag
\* C24: the flag goes from 0 to 1 only in the step of cancel_download that
\* sets it, which a batch sees at most once, and from 1 to 0 only in
\* reset_download_state when the next batch is started; no step of a worker, of
\* download_list_of_videos or of the monitoring thread changes it.
C24_FlagWrittenByCancelAndReset ==
    [][/\ (cancellation_flag = 0 /\ cancellation_flag' = 1) =>
              (kpc = "idle" /\ kpc' = "kill")
       /\ (cancellation_flag = 1 /\ cancellation_flag' = 0) =>
              (\E b \in Callers : tpc[b] = "idle" /\ tpc'[b] = "init")]_vars

\* The flag was set by a cancellation and reset by the start of the next
\* batch while workers of the cancelled batch have run.
C24_Witness ==
    /\ kpc = "returned"
    /\ tpc[2] # "idle"
    /\ cancellation_flag = 0
    /\ \E w \in Workers : wpc[w] # "none"


\* ------------------------------------------------------- the retry loop
\* Where a call of download_ts is before it has returned.
RunningSeg == {"pending", "try", "inflight"}

\* C25: a call of download_ts makes at most max_retries requests for its
\* segment, has returned None once max_retries of them failed, and every
\* call that was begun returns.
C25_AtMostFiveAttemptsThenNone ==
    /\ [](\A w \in Workers : \A k \in SegIdx :
            /\ attempt[w][k] + (IF seg[w][k] = "inflight" THEN 1 ELSE 0) <= max_retries
            /\ attempt[w][k] = max_retries => seg[w][k] = "none")
    /\ \A w \in Workers : \A k \in SegIdx :
            (seg[w][k] \in RunningSeg) ~> (seg[w][k] \in {"done", "none"})

\* A call has returned None after max_retries failed requests.
C25_Witness ==
    \E w \in Workers : \E k \in SegIdx :
        attempt[w][k] = max_retries /\ seg[w][k] = "none" /\ k \in requested[w]


\* The requests a call of download_ts has made so far: the failed ones and
\* the one in flight or stored.
RequestsMade(w, k) ==
    attempt[w][k] + (IF seg[w][k] = "inflight" \/ (seg[w][k] = "done" /\ k \in requested[w])
                     THEN 1 ELSE 0)

\* C26: the i-th wait of a call of download_ts lasts 2^(i-1) seconds (1, 2, 4,
\* 8, 16), and a call waits only before a further attempt: once it has
\* returned, it has made more requests than it has waited.
C26_WaitsOnlyBeforeFurtherAttempt ==
    \A w \in Workers : \A k \in SegIdx :
        /\ \A i \in DOMAIN slept[w][k] : slept[w][k][i] = 2 ^ (i - 1)
        /\ seg[w][k] \in {"done", "none"} => Len(slept[w][k]) < RequestsMade(w, k)


C28_CancelledWorkerTakesNoSlot ==
    [][\A w \in Workers :
          (wpc'[w] = "cancelled" /\ wpc[w] # "cancelled") =>
              /\ lockFile' = lockFile
              /\ requested'[w] = {}
              /\ \A k \in SegIdx : seg'[w][k] = "absent"
              /\ w \notin holds'
              /\ IF wpc[w] = "chk3"
                 THEN /\ w \in holds
                      /\ holds' = holds \ {w}
                      /\ sem' = [sem EXCEPT ![w[1]] = @ + 1]
                 ELSE /\ wpc[w] \in {"start", "chk2"}
                      /\ w \notin holds
                      /\ holds' = holds /\ sem' = sem]_vars

\* One worker has returned on a check of the flag and holds no slot, and the
\* other has just acquired a slot with the flag set.
C28_Witness ==
    /\ cancellation_flag = 1
    /\ \E w \in Workers :
          /\ wpc[w] = "cancelled" /\ w \notin holds
          /\ \E v \in Workers \ {w} : wpc[v] = "chk3" /\ v \in holds


\* --------------------------------------------- one batch and its monitor
\* The server runs one request of NumJobs lectures of one segment each, with
\* one slot or one per lecture; nobody cancels. Manifests, directories,
\* requests and ffmpeg may fail.
InitMonitor ==
    /\ TypeInitFiles
    /\ InitWorkers
    /\ videos = [b \in Callers |-> IF b = 1 THEN JobList("/", NumJobs) ELSE <<>>]
    /\ manifestLen = 1
    /\ maxParallel \in {Clamp(1), Clamp(NumJobs)}
    /\ cancellation_flag = 0
    /\ sem = [c \in Callers |-> 0]
    /\ dpc = [c \in Callers |-> "idle"]
    /\ didx = [c \in Callers |-> 1]
    /\ child_process_list = [c \in Callers |-> {}]
    /\ sawExisting = [c \in Callers |-> {}]
    /\ lockedBy = [c \in Callers |-> {}]

NextMonitor ==
    \/ StartDownload(1)
    \/ download_thread(1)
    \/ download_list_of_videos(1)
    \/ \E w \in Workers : download(w)

SpecMonitor == InitMonitor /\ [][NextMonitor]_vars

\* The lectures of batch b whose entry of the ProgressStore says
\* "downloading" and whose worker process is alive.
AliveDownloading(b) ==
    {n \in DownloadingEntries(progressFile) :
        \E w \in Workers : /\ w[1] = b /\ w[2] \in DOMAIN videos[b]
                            /\ Name(w) = n /\ Alive(w)}

\* C29: a pass of the monitoring loop counts as downloading the lectures
\* whose ProgressStore entry says so and whose worker process is alive: a
\* worker that has exited, crashed or been killed is not counted.
C29_DownloadingCountsLiveWorkers ==
    [][\A b \in Callers :
          (/\ tpc[b] = "monitor"
           /\ \/ active_downloads'[b] # active_downloads[b]
              \/ all_processes'[b] # all_processes[b]) =>
              active_downloads'[b] = Cardinality(AliveDownloading(b))]_vars


\* ------------------------------------------- the cancelled batch afterwards
\* C30: once cancel_download has set the flag, the batch it cancelled creates
\* no further lock file and starts no further worker process, whatever its
\* thread was doing and also after the next batch was started.
C30_NoLockNoWorkerAfterCancel ==
    [][kpc # "idle" =>
          /\ lockedBy'[1] = lockedBy[1]
          /\ \A w \in Workers : (w[1] = 1 /\ wpc[w] = "none") => wpc'[w] = "none"]_vars


\* ------------------------------------------- the lock and the output together
\* C31: with no cancellation, for every job whose lock a call created, in
\* every state from then on its lock file or its output file exists, and no
\* later call creates a lock or starts a worker for it.
C31_LockOrOutputUntilPublished ==
    \A j \in lockedBy[1] :
        /\ Sanitize(videos[1][j][1]) \in lockFile \cup outFile
        /\ j \notin lockedBy[2]
        /\ wpc[<<2, j>>] = "none"

\* The worker has published its output and removed its lock while the second
\* call is examining the same job.
C31_Witness ==
    \E j \in lockedBy[1] :
        /\ wpc[<<1, j>>] \in {"rmtree", "release"}
        /\ Sanitize(videos[1][j][1]) \notin lockFile
        /\ dpc[2] \in {"chk_lock", "chk_out"} /\ didx[2] = j


\* ------------------------------------------------- what "completed" means
\* C32: a lecture whose ProgressStore entry has the status "completed", or
\* that the server has marked and counted as completed, has been muxed and
\* its output file exists.
C32_CompletedMeansPublished ==
    \A n \in EntriesWithStatus(progressFile, "completed") \cup lecture_completion_status :
        n \in outFile


\* ------------------------------------------ the records of the other lectures
\* The records a reader of the ProgressStore file finds (none when the file
\* is absent or does not parse).
VisibleRecords == IF Readable THEN Content(progressFile) ELSE EmptyData

\* C33: a step of a call of update_progress for one lecture leaves the record
\* of every other lecture in the ProgressStore file as it was: no record of
\* another lecture is dropped or put back to an earlier one.
C33_OtherRecordsUntouched ==
    [][\A w \in Updaters :
          upc'[w] # upc[w] =>
              \A n \in SanNames \ {Name(w)} :
                  VisibleRecords'[n] = VisibleRecords[n]]_vars


\* ------------------------------------- the store during one batch's calls
\* C34: with no cancellation, the ProgressStore entry of a lecture whose
\* worker is running is not removed by any step, the start of a further call
\* of download_list_of_videos (the next stream type of the batch) included.
C34_RunningLectureKeepsRecord ==
    [][\A w \in Workers :
          (/\ Alive(w)
           /\ progressFile # NoFile
           /\ Content(progressFile)[Name(w)] # NoRec) =>
              /\ progressFile' # NoFile
              /\ Content(progressFile')[Name(w)] # NoRec]_vars


\* ------------------------------------------- the status of a cancelled batch
\* C35: once cancel_download has answered and the download thread of the
\* batch it cancelled has ended (and no further batch was requested),
\* download_status is "idle".
C35_CancelledBatchEndsIdle ==
    (kpc = "returned" /\ tpc[1] = "ended" /\ tpc[2] = "idle") => download_status = "idle"


\* ------------------------------------------------ the count when a batch ends
\* C36: at the step that ends a batch nobody cancelled with the status
\* "completed", completed_lectures_count is the number of lectures whose
\* ProgressStore entry has the status "completed".
C36_CountMatchesCompletedRecords ==
    [][\A b \in Callers :
          (tpc[b] = "finish" /\ tpc'[b] = "ended" /\ download_status' = "completed") =>
              completed_lectures_count =
                  Cardinality(EntriesWithStatus(progressFile, "completed"))]_vars


\* C37: a monitoring pass counts a lecture at most once and never counts more
\* lectures than total_lectures_to_download, and the overall progress it
\* publishes stays between 20 and 100 and never decreases from one pass to
\* the next.
C37_CountBoundedProgressMonotone ==
    [][/\ completed_lectures_count' > completed_lectures_count =>
             /\ completed_lectures_count' - completed_lectures_count =
                  Cardinality(lecture_completion_status' \ lecture_completion_status)
             /\ completed_lectures_count' <= total_lectures_to_download'
       /\ \A b \in Callers :
             (tpc[b] = "prune" /\ tpc'[b] = "monitor" /\ total_lectures_to_download > 0) =>
                 /\ download_progress' >= 20
                 /\ download_progress' <= 100
                 /\ download_progress' >= download_progress]_vars

C37_Witness ==
    /\ completed_lectures_count > 0
    /\ download_progress > 20
    /\ download_progress < 100
    /\ \E b \in Callers : tpc[b] = "monitor"


\* C38: inside one worker completed_segments grows only by one, in the step
\* that gives one segment index its non-null result, which happens at most
\* once for an index; it never exceeds total_segments; and when the pool has
\* finished it is the number of non-null results.
C38_CounterMatchesResults ==
    [][\A w \in Workers :
          /\ completed_segments'[w] > completed_segments[w] =>
                /\ completed_segments'[w] = completed_segments[w] + 1
                /\ Cardinality({k \in SegIdx : seg[w][k] # "done" /\ seg'[w][k] = "done"}) = 1
          /\ \A k \in SegIdx :
                (seg[w][k] = "done" /\ wpc'[w] = "pool" /\ wpc[w] = "pool") => seg'[w][k] = "done"
          /\ wpc'[w] = "pool" => completed_segments'[w] <= manifestLen
          /\ (wpc[w] = "pool" /\ wpc'[w] = "writelist") =>
                completed_segments[w] = Len(segment_paths'[w])]_vars

C38_Witness ==
    /\ wpc[WorkerOne] = "writelist"
    /\ manifestLen = 2
    /\ completed_segments[WorkerOne] = 1
    /\ Len(segment_paths[WorkerOne]) = 1
    /\ present0[WorkerOne] = {}


\* ------------------------------------------- one batch, failures and a cancel
\* One batch of one lecture whose requests can fail and which the user may
\* cancel at any moment; no further batch is started.
InitFetch ==
    /\ TypeInitFiles
    /\ InitWorkers
    /\ videos = [b \in Callers |-> IF b = 1 THEN JobList("/", 1) ELSE <<>>]
    /\ manifestLen \in 1..NumSegs
    /\ maxParallel = Clamp(1)
    /\ cancellation_flag = 0
    /\ sem = [c \in Callers |-> 0]
    /\ dpc = [c \in Callers |-> "idle"]
    /\ didx = [c \in Callers |-> 1]
    /\ child_process_list = [c \in Callers |-> {}]
    /\ sawExisting = [c \in Callers |-> {}]
    /\ lockedBy = [c \in Callers |-> {}]

NextFetch ==
    \/ StartDownload(1) \/ download_thread(1) \/ download_list_of_videos(1)
    \/ \E w \in Workers : download(w) \/ downloadCancelled(w)
    \/ cancel_download

SpecFetch == InitFetch /\ [][NextFetch]_vars

\* C39: a segment file appears at its final path only in the step in which an
\* attempt of a worker of that lecture, whose body went to the temporary file,
\* renames that file; an attempt that fails, is empty or is cancelled leaves
\* the final paths as they were.
C39_SegmentFileOnlyByRename ==
    [][/\ \A n \in SanNames : \A k \in SegIdx :
             (k \notin tsSegs[n] /\ k \in tsSegs'[n]) =>
                 /\ k \in tmpSegs[n] /\ k \notin tmpSegs'[n]
                 /\ \E w \in Workers :
                       /\ seg[w][k] = "inflight" /\ seg'[w][k] = "done"
                       /\ Name(w) = n
       /\ \A w \in Workers : \A k \in SegIdx :
             (seg[w][k] = "inflight" /\ seg'[w][k] \in {"try", "none"}) =>
                 \A n \in SanNames : (k \in tsSegs'[n]) = (k \in tsSegs[n])]_vars

C39_Witness ==
    \E w \in Workers :
        /\ wpc[w] = "pool"
        /\ seg[w][0] = "done"
        /\ attempt[w][0] > 0
        /\ 0 \in tsSegs[Name(w)]
        /\ 0 \notin tmpSegs[Name(w)]
        /\ cancellation_flag = 1


\* ------------------------------------------- downloader.py: get_progress_data
\* 73: PROGRESS_FILE.exists(); an absent file leads to "return {}" of line 78.
GetExists ==
    /\ gpc \in {"idle", "returned"}
    /\ caught' = "none"
    /\ IF progressFile # NoFile
       THEN gpc' = "open" /\ got' = got
       ELSE gpc' = "returned" /\ got' = EmptyData
    /\ UNCHANGED <<fsVars, inVars, retryVars, monVars, logVars, upVars, srvVars,
                   cancellation_flag, sem, dlvVars, wVars>>

\* Lines 74-75 outside any try: what open() or json.load() raises ends the
\* call and reaches the caller.
GetLoadUncaught ==
    /\ gpc = "open"
    /\ caught' = "none"
    /\ IF progressFile = NoFile \/ progressBytes # "whole"
       THEN gpc' = "raised" /\ got' = got
       ELSE gpc' = "returned" /\ got' = Content(progressFile)
    /\ UNCHANGED <<fsVars, inVars, retryVars, monVars, logVars, upVars, srvVars,
                   cancellation_flag, sem, dlvVars, wVars>>

\* 74-78: open() raises when the file is gone by now and json.load() raises
\* on a text that is not one JSON document; the bare except catches either
\* and line 78 returns {}. Otherwise the parsed object is returned.
GetLoad ==
    /\ gpc = "open"
    /\ gpc' = "returned"
    /\ caught' = IF progressFile = NoFile THEN "FileNotFoundError"
                 ELSE IF progressBytes # "whole" THEN "JSONDecodeError"
                 ELSE "none"
    /\ got' = IF caught' = "none" THEN Content(progressFile) ELSE EmptyData
    /\ UNCHANGED <<fsVars, inVars, retryVars, monVars, logVars, upVars, srvVars,
                   cancellation_flag, sem, dlvVars, wVars>>

get_progress_data == GetExists \/ GetLoad

\* The workers of a batch update the ProgressStore while a poll reads it and
\* while clear_progress_data (80-86) is called, as a further
\* download_list_of_videos call or a request handler does.
NextRead ==
    \/ \E w \in Updaters : update_progress_steps(w)
    \/ get_progress_data
    \/ /\ progressFile # NoFile
       /\ clear_progress_data
       /\ fdAt' = [v \in Workers |-> IF fdAt[v] = "progress" THEN "gone" ELSE fdAt[v]]
       /\ UNCHANGED <<lockFile, outFile, tsDir, tsSegs, listFile, muxedFile, inVars, readVars,
                      retryVars, monVars, logVars, ucalls, upc, progress_data, tmpFile,
                      tmpBytes, progressBytes, srvVars, cancellation_flag, sem, dlvVars, wVars>>

SpecRead == InitProgress /\ [][NextRead]_vars

\* C40: get_progress_data always returns a mapping and raises nothing: the
\* empty mapping when the file is absent at the existence check, when it is
\* gone at the read, and when its text does not parse; the parsed object
\* otherwise.
C40_ReadNeverRaises ==
    [][/\ (gpc \in {"idle", "returned"} /\ progressFile = NoFile /\ readVars' # readVars) =>
             (gpc' = "returned" /\ got' = EmptyData)
       /\ (gpc \in {"idle", "returned"} /\ progressFile # NoFile /\ readVars' # readVars) =>
             gpc' = "open"
       /\ (gpc = "open" /\ readVars' # readVars) =>
             /\ gpc' = "returned"
             /\ got' = IF progressFile = NoFile \/ progressBytes # "whole"
                       THEN EmptyData ELSE Content(progressFile)]_vars

C40_Witness ==
    /\ gpc = "returned"
    /\ caught = "FileNotFoundError"
    /\ got = EmptyData

====
